---- MODULE Spec2Model ----
(***************************************************************************)
(* The supervisor engine of spawner2: one ProcessMonitor worker, its       *)
(* message channel, the process group it samples and the report it         *)
(* returns (src/spawner/spawner.rs).  The limit checker, the process and   *)
(* the group are collaborators whose source is crate::limit_checker and    *)
(* crate::process; they are modelled from their contract.                  *)
(***************************************************************************)
EXTENDS Integers, Sequences, FiniteSets, TLC

\* ------------------------------------------------------------------ bounds
\* Wall-clock horizon: the clock is advanced by sleep(monitor_interval).
MaxNow == 4
\* Number of resource events (allocate, write, burn CPU, fork, connect) the
\* children perform in one run.
MaxActivity == 3
\* Messages queued beyond the drain cap by a flooding producer.
FloodExtra == 2

\* --------------------------------------------------------- program constants
\* handle_messages: try_iter().take(10)
MaxDrain == 10
\* SpawnedProgram::new: monitor_interval = Duration::from_millis(1)
MonitorInterval == 1

\* Option<T>: None is the empty tuple, Some(x) the one-element tuple.
None == <<>>
Some(x) == <<x>>
IsSome(o) == o # None
Unwrap(o) == o[1]

TerminationReason ==
    { "WallClockTimeLimitExceeded", "IdleTimeLimitExceeded",
      "UserTimeLimitExceeded", "WriteLimitExceeded", "MemoryLimitExceeded",
      "ProcessLimitExceeded", "ActiveProcessLimitExceeded",
      "ActiveNetworkConnectionLimitExceeded", "TerminatedByRunner" }

RunnerMessage ==
    { "Terminate", "Suspend", "Resume", "StopTimeAccounting",
      "ResumeTimeAccounting", "ResetTime" }

ExitStatus == { "Finished", "Crashed" }

\* ResourceLimits::default(): every limit is None.
DefaultLimits ==
    [ wall_clock_time |-> None, idle_time |-> None, total_user_time |-> None,
      max_memory_usage |-> None, total_bytes_written |-> None,
      total_processes_created |-> None, active_processes |-> None,
      active_network_connections |-> None ]

\* IdleTimeLimit { total_idle_time, cpu_load_threshold }; the threshold is
\* the fraction thr_num / thr_den.
IdleLimit(total, num, den) ==
    [ total_idle_time |-> total, thr_num |-> num, thr_den |-> den ]

\* The resource limits a program is submitted with.
LimitConfigs ==
    { DefaultLimits,
      [DefaultLimits EXCEPT !.wall_clock_time = Some(0)],
      [DefaultLimits EXCEPT !.idle_time = Some(IdleLimit(0, 1, 2))],
      [DefaultLimits EXCEPT !.total_user_time = Some(0)],
      [DefaultLimits EXCEPT !.total_bytes_written = Some(0)],
      [DefaultLimits EXCEPT !.max_memory_usage = Some(0)],
      [DefaultLimits EXCEPT !.total_processes_created = Some(0)],
      [DefaultLimits EXCEPT !.total_processes_created = Some(1)],
      [DefaultLimits EXCEPT !.active_processes = Some(1)],
      [DefaultLimits EXCEPT !.active_network_connections = Some(0)],
      [DefaultLimits EXCEPT !.wall_clock_time = Some(1),
                            !.max_memory_usage = Some(0),
                            !.active_processes = Some(1)] }

\* A platform: the counters its group can sample (a getter of a counter
\* outside the set returns None) and the caps set_os_limit accepts.
Counters == { "memory", "io", "timers", "pid_counters", "network" }

Platforms ==
    { [ counters |-> Counters, os |-> {"Memory", "ActiveProcess"} ],
      [ counters |-> Counters, os |-> {} ],
      [ counters |-> Counters \ {"pid_counters", "network"}, os |-> {"Memory"} ] }

FullPlatform == [ counters |-> Counters, os |-> {} ]

Repeat(m, n) == [ i \in 1..n |-> m ]

Range(q) == { q[i] : i \in DOMAIN q }

\* ------------------------------------------------------------ process group
\* A group's counters: memory high-water, bytes written, user-mode CPU time,
\* processes created, processes alive, open network connections.
EmptyGroup ==
    [ memory |-> 0, io |-> 0, user |-> 0, total_processes |-> 0,
      active_processes |-> 0, network |-> 0 ]

\* Group::memory / io / timers / pid_counters / network: Ok(None) where the
\* platform cannot provide the counter.
\* Group::set_os_limit: Ok(true) where the platform honours the cap.
SetOsLimit(plat, limit) == limit \in plat.os
GroupMemory(g, plat) == IF "memory" \in plat.counters THEN Some(g.memory) ELSE None
GroupIo(g, plat) == IF "io" \in plat.counters THEN Some(g.io) ELSE None
GroupTimers(g, plat) == IF "timers" \in plat.counters THEN Some(g.user) ELSE None
GroupPidCounters(g, plat) ==
    IF "pid_counters" \in plat.counters
    THEN Some([ total_processes |-> g.total_processes,
                active_processes |-> g.active_processes ])
    ELSE None
GroupNetwork(g, plat) == IF "network" \in plat.counters THEN Some(g.network) ELSE None

\* ------------------------------------------------------------ limit checker
\* LimitChecker::new(limits, EnabledOsLimits) at instant t.
LimitCheckerNew(limits, enabled, t) ==
    [ limits |-> limits, enabled |-> enabled, wall_time |-> 0, user_time |-> 0,
      idle_time |-> 0, last_now |-> t, last_user |-> 0, paused |-> FALSE ]

\* A checker whose idle accumulator starts again from zero after a busy
\* interval.
LcAdvance_ResetsWhenBusy(lc, g, plat, t) ==
    LET timers == GroupTimers(g, plat)
        u == IF IsSome(timers) THEN Unwrap(timers) ELSE lc.last_user
        dt == t - lc.last_now
        du == u - lc.last_user
        idle == /\ IsSome(lc.limits.idle_time)
                /\ dt > 0
                /\ du * Unwrap(lc.limits.idle_time).thr_den
                     < Unwrap(lc.limits.idle_time).thr_num * dt
    IN IF lc.paused
       THEN [lc EXCEPT !.last_now = t, !.last_user = u]
       ELSE [lc EXCEPT !.wall_time = @ + dt, !.user_time = @ + du,
                       !.idle_time = IF idle THEN @ + dt
                                     ELSE IF dt > 0 THEN 0 ELSE @,
                       !.last_now = t, !.last_user = u]

\* The first part of check: advance wall_time, user_time and the idle
\* accumulator by the interval since the previous sample.  CPU load is
\* du / dt; it is below thr_num / thr_den iff du * thr_den < thr_num * dt.
LcAdvance(lc, g, plat, t) ==
    LET timers == GroupTimers(g, plat)
        u == IF IsSome(timers) THEN Unwrap(timers) ELSE lc.last_user
        dt == t - lc.last_now
        du == u - lc.last_user
        idle == /\ IsSome(lc.limits.idle_time)
                /\ dt > 0
                /\ du * Unwrap(lc.limits.idle_time).thr_den
                     < Unwrap(lc.limits.idle_time).thr_num * dt
    IN IF lc.paused
       THEN [lc EXCEPT !.last_now = t, !.last_user = u]
       ELSE [lc EXCEPT !.wall_time = @ + dt, !.user_time = @ + du,
                       !.idle_time = IF idle THEN @ + dt ELSE @,
                       !.last_now = t, !.last_user = u]

\* stat > limit, false when either is absent.
Gt(stat, limit) == IsSome(stat) /\ IsSome(limit) /\ Unwrap(stat) > Unwrap(limit)

\* The limit rules, in the order check evaluates them: the order of the
\* TerminationReason enumeration without TerminatedByRunner.
CheckOrder ==
    << "WallClockTimeLimitExceeded", "IdleTimeLimitExceeded",
       "UserTimeLimitExceeded", "WriteLimitExceeded", "MemoryLimitExceeded",
       "ProcessLimitExceeded", "ActiveProcessLimitExceeded",
       "ActiveNetworkConnectionLimitExceeded" >>

\* Rule `reason` taken alone: its limit is breached by the sample.  The time
\* rules are off while time accounting is paused; the memory and
\* active-process rules are off when the OS enforces the limit.
RuleBreached(reason, lc, g, plat) ==
    LET l == lc.limits
        pids == GroupPidCounters(g, plat)
    IN CASE reason = "WallClockTimeLimitExceeded" ->
              ~lc.paused /\ Gt(Some(lc.wall_time), l.wall_clock_time)
         [] reason = "IdleTimeLimitExceeded" ->
              /\ ~lc.paused
              /\ IsSome(l.idle_time)
              /\ lc.idle_time > Unwrap(l.idle_time).total_idle_time
         [] reason = "UserTimeLimitExceeded" ->
              /\ ~lc.paused
              /\ IsSome(GroupTimers(g, plat))
              /\ Gt(Some(lc.user_time), l.total_user_time)
         [] reason = "WriteLimitExceeded" ->
              Gt(GroupIo(g, plat), l.total_bytes_written)
         [] reason = "MemoryLimitExceeded" ->
              ~lc.enabled.memory /\ Gt(GroupMemory(g, plat), l.max_memory_usage)
         [] reason = "ProcessLimitExceeded" ->
              /\ IsSome(pids)
              /\ Gt(Some(Unwrap(pids).total_processes), l.total_processes_created)
         [] reason = "ActiveProcessLimitExceeded" ->
              /\ ~lc.enabled.active_process
              /\ IsSome(pids)
              /\ Gt(Some(Unwrap(pids).active_processes), l.active_processes)
         [] reason = "ActiveNetworkConnectionLimitExceeded" ->
              Gt(GroupNetwork(g, plat), l.active_network_connections)

\* The positions in CheckOrder of the rules the sample breaches.
BreachedRules(lc, g, plat) ==
    { k \in DOMAIN CheckOrder : RuleBreached(CheckOrder[k], lc, g, plat) }

\* A checker that reports the last breached rule of the order.
LcEvaluate_LastBreached(lc, g, plat) ==
    LET b == BreachedRules(lc, g, plat)
    IN IF b = {} THEN "None"
       ELSE CheckOrder[CHOOSE k \in b : \A j \in b : j <= k]

\* The second part of check: the rules in their order; the first breached
\* rule gives the reason.
LcEvaluate(lc, g, plat) ==
    LET l == lc.limits
        pids == GroupPidCounters(g, plat)
    IN IF ~lc.paused /\ Gt(Some(lc.wall_time), l.wall_clock_time)
         THEN "WallClockTimeLimitExceeded"
       ELSE IF /\ ~lc.paused
               /\ IsSome(l.idle_time)
               /\ lc.idle_time > Unwrap(l.idle_time).total_idle_time
         THEN "IdleTimeLimitExceeded"
       ELSE IF /\ ~lc.paused
               /\ IsSome(GroupTimers(g, plat))
               /\ Gt(Some(lc.user_time), l.total_user_time)
         THEN "UserTimeLimitExceeded"
       ELSE IF Gt(GroupIo(g, plat), l.total_bytes_written)
         THEN "WriteLimitExceeded"
       ELSE IF ~lc.enabled.memory /\ Gt(GroupMemory(g, plat), l.max_memory_usage)
         THEN "MemoryLimitExceeded"
       ELSE IF /\ IsSome(pids)
               /\ Gt(Some(Unwrap(pids).total_processes), l.total_processes_created)
         THEN "ProcessLimitExceeded"
       ELSE IF /\ ~lc.enabled.active_process
               /\ IsSome(pids)
               /\ Gt(Some(Unwrap(pids).active_processes), l.active_processes)
         THEN "ActiveProcessLimitExceeded"
       ELSE IF Gt(GroupNetwork(g, plat), l.active_network_connections)
         THEN "ActiveNetworkConnectionLimitExceeded"
       ELSE "None"

\* LimitChecker::check(group) at instant t: the new checker and the reason
\* ("None" when no rule is breached).
LcCheck(lc, g, plat, t) ==
    LET adv == LcAdvance(lc, g, plat, t)
    IN [ lc |-> adv, reason |-> LcEvaluate(adv, g, plat) ]

LcResetTime(lc, t) ==
    [lc EXCEPT !.wall_time = 0, !.user_time = 0, !.idle_time = 0, !.last_now = t]
LcStopTimeAccounting(lc) == [lc EXCEPT !.paused = TRUE]
LcResumeTimeAccounting(lc, t) == [lc EXCEPT !.paused = FALSE, !.last_now = t]

\* -------------------------------------------------------------------- state
VARIABLES
    program,           \* the SpawnedProgram handed to the worker
    platform,          \* the platform the engine runs on
    script,            \* what the holders of the Sender send during the run
    sent,              \* how many messages of the script have been sent
    queue,             \* msg_channel: messages sent and not yet received
    pc,                \* the worker's position
    limit_checker,     \* ProcessMonitor.limit_checker
    term_reason,       \* ProcessMonitor.term_reason ("None" when unset)
    creation_time,     \* ProcessMonitor.creation_time
    on_terminate,      \* ProcessMonitor.on_terminate ("None" when absent)
    local,             \* get_report's exit_status and pid_counters
    drained,           \* messages taken by the current handle_messages call
    grp,               \* the group's counters
    exit_status,       \* the root process's status ("None" while running)
    killed,            \* group.terminate() has succeeded
    suspended,         \* the root process is suspended
    activity,          \* resource events performed so far
    now,               \* the clock
    result,            \* the worker's result: <<>>, <<"Err">>, <<"Ok", Report>>
    hist,              \* history kept for the properties
    pool,              \* a Spawner: its programs, runners, worker threads
    ctx,               \* a thread entering and leaving a Windows UserContext
    uc                 \* calls of User::create and the process window station

\* One worker seen in full: a ProcessMonitor, its channel and its group.
workerVars ==
    << program, platform, script, sent, queue, pc, limit_checker, term_reason,
       creation_time, on_terminate, local, drained, grp, exit_status, killed,
       suspended, activity, now, result, hist >>

vars == << workerVars, pool, ctx, uc >>

\* What no step of a worker changes: its inputs, the Spawner's own state
\* and the thread's impersonation.
cfgVars == << program, platform, script, pool, ctx, uc >>
monVars == << limit_checker, term_reason, creation_time, on_terminate >>
envVars == << grp, exit_status, killed, suspended, activity >>
chanVars == << sent, queue >>

NoLocal == [ exit_status |-> "None", pid_counters |-> None ]

NoOsLimits == [ memory |-> FALSE, active_process |-> FALSE ]

Hist0 ==
    [ backlog |-> <<>>,         \* the channel when the worker started
      newLog |-> <<>>,          \* collaborator calls made by ProcessMonitor::new
      tickLog |-> <<>>,         \* events of the current tick
      first_reason |-> "None",  \* the first reason stored in term_reason
      terminates |-> {},        \* who has called group.terminate()
      callbacks |-> 0,          \* runs of the on_terminate callback
      reports |-> 0,            \* Reports returned by start_monitoring
      drainStart |-> <<>>,      \* the channel when the last drain began
      drainBase |-> 0,          \* messages dequeued before the last drain began
      sentRunning |-> FALSE,    \* a Terminate was sent while the root ran
      termSentAt |-> 0,         \* index, among all messages of the channel, of
                                \* the first Terminate sent during the loop
      received |-> <<>>,        \* the messages dequeued so far, in order
      group |-> "none",         \* the Group: "none", "live" or "dropped"
      newFailed |-> 0,          \* the step of ProcessMonitor::new that failed
      breached |-> "None",      \* the reason of the loop's last breach
      firstCheck |-> "unset",   \* what the monitor's first check returned
      returned |-> {},          \* the reasons its checks have returned
      control |-> "none",       \* the call made on the root process for the
                                \* last Suspend or Resume handled
      dropLog |-> <<>> ]        \* the calls made by the monitor's drop

\* The history after a check that returned reason.
Sampled(h, reason) ==
    [h EXCEPT !.firstCheck = IF @ = "unset" THEN reason ELSE @,
              !.returned = IF reason = "None" THEN @ ELSE @ \cup {reason}]

\* What a process can do that the group's counters show.
Activities == { "Alloc", "Write", "Burn", "Fork", "Connect" }

\* SpawnedProgram::new(info): the builder's defaults.  info is the program
\* to run, given here by the activities it and its descendants perform.
DefaultProgram ==
    [ info |-> Activities, resource_limits |-> None, wait_for_children |-> FALSE,
      on_terminate |-> "None", group |-> "None", stdio |-> "None" ]

\* A program that exercises the limits l: it forks, and it uses the
\* resources l limits (every resource, when l limits none).
Exercising(l) ==
    IF l = DefaultLimits THEN Activities
    ELSE { "Fork" }
         \cup (IF IsSome(l.max_memory_usage) THEN { "Alloc" } ELSE {})
         \cup (IF IsSome(l.total_bytes_written) THEN { "Write" } ELSE {})
         \cup (IF IsSome(l.total_user_time) \/ IsSome(l.idle_time)
               THEN { "Burn" } ELSE {})
         \cup (IF IsSome(l.active_network_connections)
               THEN { "Connect" } ELSE {})

\* The submitted programs, with the platform they run on, the messages
\* already in their channel when the worker starts (backlog) and the
\* messages sent while it runs (script).
Input(prog, plat, backlog, scr) ==
    [ program |-> prog, platform |-> plat, backlog |-> backlog, script |-> scr ]

\* Every limit configuration, with and without wait_for_children, on
\* every platform.
LimitInputs ==
    { Input([DefaultProgram EXCEPT !.info = Exercising(l),
                                   !.resource_limits = Some(l),
                                   !.wait_for_children = w],
            plat, <<>>, <<>>) :
        l \in LimitConfigs, w \in BOOLEAN, plat \in Platforms }

\* Every message kind and the two pairs, without limits; a Terminate with a
\* limit the program breaches at once; the time messages with a time limit.
MessageInputs ==
    { Input([DefaultProgram EXCEPT !.info = { "Burn" }],
            FullPlatform, <<>>, scr) :
        scr \in { <<m>> : m \in RunnerMessage }
                \cup { <<"Suspend", "Resume">>,
                       <<"StopTimeAccounting", "ResumeTimeAccounting">> } }
    \cup
    { Input([DefaultProgram EXCEPT !.info = { "Fork" }, !.resource_limits =
                 Some([DefaultLimits EXCEPT !.total_processes_created = Some(0)])],
            FullPlatform, <<>>, <<"Terminate">>) }
    \cup
    { Input([DefaultProgram EXCEPT !.info = { "Burn" }, !.resource_limits =
                 Some([DefaultLimits EXCEPT !.wall_clock_time = Some(1)])],
            FullPlatform, <<>>, scr) :
        scr \in { <<"ResetTime">>, <<"StopTimeAccounting">>,
                  <<"StopTimeAccounting", "ResumeTimeAccounting">> } }

\* Channels holding at least as many messages as one drain takes.
FloodInputs ==
    LET prog == [DefaultProgram EXCEPT !.info = { "Burn" }]
    IN { Input(prog, FullPlatform, Repeat("Suspend", MaxDrain), <<"Terminate">>),
         Input(prog, FullPlatform,
               Repeat("ResetTime", MaxDrain - 1) \o <<"Terminate">>
                   \o Repeat("Resume", FloodExtra),
               <<>>),
         Input(prog, FullPlatform,
               Repeat("StopTimeAccounting", MaxDrain + FloodExtra),
               <<"Terminate">>) }

\* Every way of building the program: callback, group and stdio given or not.
BuilderInputs ==
    { Input([ info |-> { "Alloc", "Fork" },
              resource_limits |-> l, wait_for_children |-> FALSE,
              on_terminate |-> h, group |-> g, stdio |-> io ],
            plat, <<>>, <<>>) :
        l \in { None,
                Some([DefaultLimits EXCEPT !.max_memory_usage = Some(0),
                                           !.active_processes = Some(1)]) },
        h \in { "None", "handler" }, g \in { "None", "group" },
        io \in { "None", "stdio" },
        plat \in { FullPlatform } }

\* The limits taken two at a time, each at zero, with a program that uses
\* both resources: samples that breach several limits at once.
LimitNames ==
    { "wall_clock_time", "idle_time", "total_user_time", "total_bytes_written",
      "max_memory_usage", "total_processes_created", "active_processes",
      "active_network_connections" }

ZeroLimit(name) == IF name = "idle_time" THEN Some(IdleLimit(0, 1, 2)) ELSE Some(0)

OrderInputs ==
    { Input([DefaultProgram EXCEPT
                 !.info = Exercising(l) \ { "Fork" },
                 !.resource_limits = Some(l)],
            FullPlatform, <<>>, <<>>) :
        l \in { [DefaultLimits EXCEPT ![a] = ZeroLimit(a), ![b] = ZeroLimit(b)] :
                  a \in LimitNames, b \in LimitNames } }

\* A program that burns CPU in some intervals and sleeps in others, with an
\* idle-time limit of one interval below a load of 1/2.
IdleInputs ==
    { Input([DefaultProgram EXCEPT
                 !.info = { "Burn" },
                 !.resource_limits =
                     Some([DefaultLimits EXCEPT !.idle_time = Some(IdleLimit(1, 1, 2))])],
            FullPlatform, <<>>, <<>>) }

Inputs ==
    LimitInputs \cup MessageInputs \cup FloodInputs \cup BuilderInputs
        \cup OrderInputs \cup IdleInputs

\* No Spawner: the worker is followed on its own.
NoPool ==
    [ programs |-> <<>>, runners |-> <<>>, threads |-> <<>>, chan |-> <<>>,
      sends |-> <<>>, waiting |-> FALSE, results |-> <<>> ]

\* The worker about to run ProcessMonitor::new on input i.
WorkerInit(i) ==
    /\ program = i.program
    /\ platform = i.platform
    /\ script = i.script
    /\ queue = i.backlog
    /\ hist = [Hist0 EXCEPT
                   !.backlog = i.backlog,
                   !.group = IF i.program.group = "None" THEN "none" ELSE "live"]
    /\ sent = 0
    /\ pc = "new"
    /\ limit_checker = LimitCheckerNew(DefaultLimits, NoOsLimits, 0)
    /\ term_reason = "None"
    /\ creation_time = 0
    /\ on_terminate = "None"
    /\ local = NoLocal
    /\ drained = 0
    /\ grp = EmptyGroup
    /\ exit_status = "None"
    /\ killed = FALSE
    /\ suspended = FALSE
    /\ activity = 0
    /\ now = 0
    /\ result = <<>>

\* User::create has not been called: the process is on its original
\* window station (0); the station a call creates is numbered by the call.
NoCreate ==
    [ k |-> 0, calls |-> 0, station |-> 0, before |-> 0, new_winsta |-> 0,
      old_winsta |-> 0, desktop |-> "unset", switched |-> {}, log |-> <<>>,
      result |-> <<>> ]

\* No UserContext: the thread runs as itself and has called nothing.
NoContext(user) ==
    [ user |-> user, at |-> "enter", context |-> "none", impersonating |-> FALSE,
      calls |-> <<>>, entered |-> 0, steps |-> 0, left |-> "none" ]

Init ==
    /\ \E i \in Inputs : WorkerInit(i)
    /\ pool = NoPool
    /\ ctx = NoContext("None")
    /\ uc = NoCreate

\* ------------------------------------------------------- ProcessMonitor::new
\* program.resource_limits.unwrap_or_default()
UnwrapOrDefault(o) == IF IsSome(o) THEN Unwrap(o) ELSE DefaultLimits

\* limit.map(|l| group.set_os_limit(..)).transpose()?.unwrap_or(false):
\* set_os_limit is called only for a limit that is Some.
SetsOsLimit_Always(limit) == TRUE
SetsOsLimit(limit) == IsSome(limit)
EnabledOsLimit_WhenSet(limit, answer) == SetsOsLimit(limit)
EnabledOsLimit(limit, answer) == IF SetsOsLimit(limit) THEN answer ELSE FALSE

\* The collaborator calls new makes for program p when none fails, in order.
NewSteps(p) ==
    LET limits == UnwrapOrDefault(p.resource_limits)
    IN (IF p.group = "None" THEN <<"Group::new">> ELSE <<>>)
       \o (IF SetsOsLimit(limits.max_memory_usage)
           THEN <<"set_os_limit(Memory)">> ELSE <<>>)
       \o (IF SetsOsLimit(limits.active_processes)
           THEN <<"set_os_limit(ActiveProcess)">> ELSE <<>>)
       \o <<"LimitChecker::new">>
       \o (IF p.stdio = "None"
           THEN <<"ReadPipe::null", "WritePipe::null", "WritePipe::null">>
           ELSE <<>>)
       \o <<"spawn_in_group">>

\* Every step but LimitChecker::new returns a Result and is followed by `?`.
Fallible(step) == step # "LimitChecker::new"

\* The calls made when step k fails: `?` returns from new at once.
AttemptedSteps_RunsAll(steps, k) == steps
AttemptedSteps(steps, k) == SubSeq(steps, 1, k)

\* The Group when new returns an error: the local `group`, supplied by the
\* program or created by Group::new, goes out of scope and is dropped; there
\* is none when Group::new itself failed.
GroupAfterFailure(steps, k) ==
    IF steps[k] = "Group::new" THEN "none" ELSE "dropped"

\* The worker's closure: ProcessMonitor::new(prog).  Either a step fails and
\* the error is the worker's result, or the monitor is built around the
\* spawned process.
New ==
    /\ pc = "new"
    /\ LET steps == NewSteps(program)
           limits == UnwrapOrDefault(program.resource_limits)
       IN \/ \E k \in 1..Len(steps) :
                /\ Fallible(steps[k])
                /\ pc' = "new_failed"
                /\ result' = <<"Err">>
                /\ hist' = [hist EXCEPT
                                !.newLog = AttemptedSteps(steps, k),
                                !.newFailed = k,
                                !.group = GroupAfterFailure(steps, k)]
                /\ UNCHANGED << monVars, grp >>
          \/ /\ limit_checker' =
                  LimitCheckerNew(
                      limits,
                      [ memory |->
                            EnabledOsLimit(limits.max_memory_usage,
                                           SetOsLimit(platform, "Memory")),
                        active_process |->
                            EnabledOsLimit(limits.active_processes,
                                           SetOsLimit(platform, "ActiveProcess")) ],
                      now)
             /\ term_reason' = "None"
             /\ creation_time' = now
             /\ on_terminate' = program.on_terminate
             /\ grp' = [EmptyGroup EXCEPT !.total_processes = 1,
                                          !.active_processes = 1]
             /\ pc' = "get_report"
             /\ result' = result
             /\ hist' = [hist EXCEPT !.newLog = steps, !.group = "live"]
    /\ UNCHANGED << cfgVars, chanVars, local, drained, exit_status, killed,
                    suspended, activity, now >>

\* ------------------------------------------------------------ the monitor
\* An Err propagated by `?` out of start_monitoring.
Fails_WithoutError == pc' = "failed" /\ result' = result
Fails == pc' = "failed" /\ result' = <<"Err">>

\* The order of start_monitoring's loop body: after get_report gave None the
\* limit check, then handle_messages, then the sleep and the next iteration;
\* after get_report gave a Report, return Ok(report).
AfterNoReport_SkipsCheck == "drain"
AfterNoReport == "check"
AfterCheck == "drain"
AfterSleep == "get_report"
AfterReport_KeepsLooping == "check"
AfterReport == "done"

\* get_report, first part: the wait_for_children test on the sampled
\* pid_counters.
WaitsForChildren_Never(wait, pids) == FALSE
WaitsForChildren(wait, pids) ==
    wait /\ IsSome(pids) /\ Unwrap(pids).active_processes # 0

\* get_report up to its second return: exit_status()?, pid_counters()? and
\* the wait_for_children test.  Ok(None) sends the loop on to its check.
GetReport ==
    /\ pc = "get_report"
    /\ \/ /\ Fails
          /\ local' = local
       \/ /\ exit_status = "None"
          /\ pc' = AfterNoReport
          /\ UNCHANGED << result, local >>
       \/ /\ exit_status # "None"
          /\ \/ /\ Fails
                /\ local' = local
             \/ LET pids == GroupPidCounters(grp, platform)
                IN /\ result' = result
                   /\ IF WaitsForChildren(program.wait_for_children, pids)
                      THEN pc' = AfterNoReport /\ local' = local
                      ELSE /\ pc' = "final_check"
                           /\ local' = [ exit_status |-> exit_status,
                                         pid_counters |-> pids ]
    /\ hist' = [hist EXCEPT !.tickLog = <<"get_report">>]
    /\ UNCHANGED << cfgVars, chanVars, monVars, drained, envVars, now >>

\* if self.term_reason.is_none() { self.term_reason = check()? }
RunsFinalCheck_Always(reason) == TRUE
RunsFinalCheck_Never(reason) == FALSE
RunsFinalCheck(reason) == reason = "None"

FinalCheck ==
    /\ pc = "final_check"
    /\ IF RunsFinalCheck(term_reason)
       THEN \/ /\ Fails
               /\ UNCHANGED << limit_checker, term_reason, hist >>
            \/ LET r == LcCheck(limit_checker, grp, platform, now)
               IN /\ limit_checker' = r.lc
                  /\ term_reason' = r.reason
                  /\ hist' = [Sampled(hist, r.reason) EXCEPT
                        !.first_reason = IF @ = "None" THEN r.reason ELSE @,
                        !.tickLog = Append(@, "final_check")]
                  /\ pc' = "assemble"
                  /\ result' = result
       ELSE /\ pc' = "assemble"
            /\ UNCHANGED << limit_checker, term_reason, hist, result >>
    /\ UNCHANGED << cfgVars, chanVars, creation_time, on_terminate, local,
                    drained, envVars, now >>

\* A Report whose wall_clock_time is the limit checker's wall_time.
Report_CheckerWallTime ==
    [ wall_clock_time |-> limit_checker.wall_time,
      memory |-> GroupMemory(grp, platform),
      io |-> GroupIo(grp, platform),
      timers |-> GroupTimers(grp, platform),
      pid_counters |-> local.pid_counters,
      network |-> GroupNetwork(grp, platform),
      exit_status |-> local.exit_status,
      termination_reason |-> term_reason ]

\* The Report literal: creation_time.elapsed(), the four getters, the
\* pid_counters and exit status read earlier, and term_reason.
Report ==
    [ wall_clock_time |-> now - creation_time,
      memory |-> GroupMemory(grp, platform),
      io |-> GroupIo(grp, platform),
      timers |-> GroupTimers(grp, platform),
      pid_counters |-> local.pid_counters,
      network |-> GroupNetwork(grp, platform),
      exit_status |-> local.exit_status,
      termination_reason |-> term_reason ]

\* get_report's last expression, and start_monitoring's return Ok(report).
Assemble ==
    /\ pc = "assemble"
    /\ \/ /\ Fails
          /\ hist' = hist
       \/ /\ result' = <<"Ok", Report>>
          /\ pc' = AfterReport
          /\ hist' = [hist EXCEPT !.reports = @ + 1]
    /\ UNCHANGED << cfgVars, chanVars, monVars, local, drained, envVars, now >>

\* self.term_reason = Some(tr) after a breach in the loop.
RecordBreach_Forgets(old, tr) == old
RecordBreach(old, tr) == tr

\* The loop body's limit check: check()?, and on a breach terminate()? and
\* the assignment of term_reason; handle_messages is entered next.
LoopCheck ==
    /\ pc = "check"
    /\ \/ /\ Fails
          /\ UNCHANGED << limit_checker, term_reason, killed, hist, drained >>
       \/ LET r == LcCheck(limit_checker, grp, platform, now)
              log == Append(hist.tickLog, "check")
              sampled == Sampled(hist, r.reason)
          IN /\ limit_checker' = r.lc
             /\ IF r.reason = "None"
                THEN /\ pc' = AfterCheck
                     /\ drained' = 0
                     /\ hist' = [sampled EXCEPT !.tickLog = log,
                                             !.drainStart = queue,
                                             !.drainBase = Len(hist.received)]
                     /\ UNCHANGED << term_reason, killed, result >>
                ELSE \/ /\ killed' = TRUE
                        /\ term_reason' = RecordBreach(term_reason, r.reason)
                        /\ pc' = AfterCheck
                        /\ drained' = 0
                        /\ result' = result
                        /\ hist' = [sampled EXCEPT
                              !.tickLog = log \o <<"breach", "terminate">>,
                              !.first_reason = IF @ = "None" THEN r.reason ELSE @,
                              !.breached = r.reason,
                              !.terminates = @ \cup {"limit"},
                              !.drainStart = queue,
                              !.drainBase = Len(hist.received)]
                     \/ /\ Fails
                        /\ hist' = [sampled EXCEPT
                              !.tickLog = log \o <<"breach", "terminate">>,
                              !.terminates = @ \cup {"limit"}]
                        /\ UNCHANGED << term_reason, killed, drained >>
    /\ UNCHANGED << cfgVars, chanVars, creation_time, on_terminate, local, grp,
                    exit_status, suspended, activity, now >>

\* try_iter().take(MaxDrain): the iteration goes on while fewer than MaxDrain
\* messages were taken and try_recv finds one.
TakesNext_NoCap(n, q) == q # <<>>
TakesNext(n, q) == n < MaxDrain /\ q # <<>>

\* self.term_reason = Some(TerminationReason::TerminatedByRunner)
RecordTerminate_Forgets(old) == old
RecordTerminate(old) == "TerminatedByRunner"

\* Suspend and Resume act only if self.process.exit_status()?.is_none().
StillRunning_Always(status) == TRUE
StillRunning(status) == status = "None"

\* The call a Suspend or Resume message makes on the root process.
ControlCall(msg) == IF msg = "Suspend" THEN "suspend" ELSE "resume"

\* RunnerMessage::StopTimeAccounting => self.limit_checker.stop_time_accounting()
OnStopTimeAccounting_Ignored(lc) == lc
OnStopTimeAccounting(lc) == LcStopTimeAccounting(lc)

\* One iteration of handle_messages' loop.
HandleMessage ==
    /\ pc = "drain"
    /\ TakesNext(drained, queue)
    /\ LET msg == Head(queue)
           h == [hist EXCEPT !.tickLog = Append(@, msg),
                             !.received = Append(@, msg)]
       IN /\ queue' = Tail(queue)
          /\ drained' = drained + 1
          /\ \/ /\ msg = "Terminate"
                /\ \/ /\ killed' = TRUE
                      /\ term_reason' = RecordTerminate(term_reason)
                      /\ hist' = [h EXCEPT
                            !.terminates = @ \cup {"message"},
                            !.first_reason =
                                IF @ = "None" THEN "TerminatedByRunner" ELSE @]
                      /\ UNCHANGED << pc, result >>
                   \/ /\ Fails
                      /\ hist' = [h EXCEPT !.terminates = @ \cup {"message"}]
                      /\ UNCHANGED << killed, term_reason >>
                /\ UNCHANGED << limit_checker, suspended >>
             \/ /\ msg \in {"Suspend", "Resume"}
                /\ \/ /\ Fails
                      /\ hist' = [h EXCEPT !.control = "none"]
                      /\ suspended' = suspended
                   \/ /\ StillRunning(exit_status)
                      /\ hist' = [h EXCEPT !.control = ControlCall(msg)]
                      /\ \/ /\ suspended' = (msg = "Suspend")
                            /\ UNCHANGED << pc, result >>
                         \/ /\ Fails
                            /\ suspended' = suspended
                   \/ /\ ~StillRunning(exit_status)
                      /\ hist' = [h EXCEPT !.control = "none"]
                      /\ UNCHANGED << pc, result, suspended >>
                /\ UNCHANGED << limit_checker, term_reason, killed >>
             \/ /\ msg = "ResetTime"
                /\ limit_checker' = LcResetTime(limit_checker, now)
                /\ hist' = h
                /\ UNCHANGED << pc, result, term_reason, killed, suspended >>
             \/ /\ msg = "StopTimeAccounting"
                /\ limit_checker' = OnStopTimeAccounting(limit_checker)
                /\ hist' = h
                /\ UNCHANGED << pc, result, term_reason, killed, suspended >>
             \/ /\ msg = "ResumeTimeAccounting"
                /\ limit_checker' = LcResumeTimeAccounting(limit_checker, now)
                /\ hist' = h
                /\ UNCHANGED << pc, result, term_reason, killed, suspended >>
    /\ UNCHANGED << cfgVars, sent, creation_time, on_terminate, local, grp,
                    exit_status, activity, now >>

\* try_iter() never waits: the iteration ends as soon as the channel is
\* empty (or all its senders are gone), or MaxDrain messages were taken.
DrainEnds_Blocking(n, q) == n >= MaxDrain
DrainEnds(n, q) == ~TakesNext(n, q)

\* handle_messages returns Ok(()), then thread::sleep(self.monitor_interval)
\* and the next iteration of the loop.  The clock is followed up to MaxNow;
\* the loop goes on beyond it.
Sleep ==
    /\ pc = "drain"
    /\ DrainEnds(drained, queue)
    /\ now' = IF now + MonitorInterval <= MaxNow THEN now + MonitorInterval ELSE now
    /\ pc' = AfterSleep
    /\ hist' = [hist EXCEPT !.tickLog = Append(@, "sleep")]
    /\ UNCHANGED << cfgVars, chanVars, monVars, local, drained, envVars, result >>

\* self.on_terminate.take()
TakeHandler(h) == "None"

\* Whether drop runs the callback: if let Some(handler) = ...take().
RunsHandler_Never(h) == FALSE
RunsHandler(h) == h # "None"

\* ProcessMonitor::new(prog).and_then(|mut pm| ..): there is a monitor to
\* drop, when start_monitoring returns, only if new returned Ok.
MonitorExists_AfterFailedNew(at) == at \in {"done", "failed", "new_failed"}
MonitorExists(at) == at \in {"done", "failed"}

\* drop's calls in their order: let _ = self.group.terminate(), then the
\* callback if there is one.
DropCalls_CallbackFirst(h) ==
    (IF RunsHandler(h) THEN <<"on_terminate">> ELSE <<>>) \o <<"terminate">>
DropCalls(h) ==
    <<"terminate">> \o (IF RunsHandler(h) THEN <<"on_terminate">> ELSE <<>>)

\* impl Drop for ProcessMonitor, run when the closure given to and_then
\* returns: terminate() with its result ignored, then the callback.
Drop ==
    /\ MonitorExists(pc)
    /\ \E ok \in BOOLEAN : killed' = (killed \/ ok)
    /\ on_terminate' = TakeHandler(on_terminate)
    /\ hist' = [hist EXCEPT
          !.terminates = @ \cup {"drop"},
          !.callbacks = IF RunsHandler(on_terminate) THEN @ + 1 ELSE @,
          !.dropLog = DropCalls(on_terminate),
          !.group = "dropped"]
    /\ pc' = "dropped"
    /\ UNCHANGED << cfgVars, chanVars, limit_checker, term_reason,
                    creation_time, local, drained, grp, exit_status, suspended,
                    activity, now, result >>

\* ------------------------------------------------- the children (the OS)
Spawned == pc \notin {"new", "new_failed"}

\* The group is followed until its monitor is dropped.
Supervised == Spawned /\ pc # "dropped"

RootRunning == Spawned /\ exit_status = "None"

Descendants == grp.active_processes - (IF RootRunning THEN 1 ELSE 0)

\* Some process of the group can run: the group was not terminated, and a
\* descendant is alive or the root runs and is not suspended.
CanAct(activity_kind) ==
    /\ activity_kind \in program.info
    /\ Supervised
    /\ ~killed
    /\ activity < MaxActivity
    /\ Descendants > 0 \/ (RootRunning /\ ~suspended)

EnvFrame ==
    UNCHANGED << cfgVars, chanVars, pc, monVars, local, drained, now, result,
                 hist >>

\* A cap the OS accepted is applied by the OS itself: the counter cannot
\* pass it.
OsAllows(enabled, limit, value) ==
    (enabled /\ IsSome(limit)) => value <= Unwrap(limit)

Alloc ==
    /\ CanAct("Alloc")
    /\ OsAllows(limit_checker.enabled.memory,
                limit_checker.limits.max_memory_usage, grp.memory + 1)
    /\ grp' = [grp EXCEPT !.memory = @ + 1]
    /\ activity' = activity + 1
    /\ UNCHANGED << exit_status, killed, suspended >>
    /\ EnvFrame

Write ==
    /\ CanAct("Write")
    /\ grp' = [grp EXCEPT !.io = @ + 1]
    /\ activity' = activity + 1
    /\ UNCHANGED << exit_status, killed, suspended >>
    /\ EnvFrame

Burn ==
    /\ CanAct("Burn")
    /\ grp' = [grp EXCEPT !.user = @ + 1]
    /\ activity' = activity + 1
    /\ UNCHANGED << exit_status, killed, suspended >>
    /\ EnvFrame

Fork ==
    /\ CanAct("Fork")
    /\ OsAllows(limit_checker.enabled.active_process,
                limit_checker.limits.active_processes, grp.active_processes + 1)
    /\ grp' = [grp EXCEPT !.total_processes = @ + 1, !.active_processes = @ + 1]
    /\ activity' = activity + 1
    /\ UNCHANGED << exit_status, killed, suspended >>
    /\ EnvFrame

Connect ==
    /\ CanAct("Connect")
    /\ grp' = [grp EXCEPT !.network = @ + 1]
    /\ activity' = activity + 1
    /\ UNCHANGED << exit_status, killed, suspended >>
    /\ EnvFrame

Disconnect ==
    /\ Supervised
    /\ grp.network > 0
    /\ grp' = [grp EXCEPT !.network = @ - 1]
    /\ UNCHANGED << exit_status, killed, suspended, activity >>
    /\ EnvFrame

\* The root process exits by itself, or because the group was terminated.
RootExit ==
    /\ Supervised
    /\ RootRunning
    /\ killed \/ ~suspended
    /\ \E s \in ExitStatus : exit_status' = s
    /\ grp' = [grp EXCEPT !.active_processes = @ - 1]
    /\ UNCHANGED << killed, suspended, activity >>
    /\ EnvFrame

ChildExit ==
    /\ Supervised
    /\ Descendants > 0
    /\ grp' = [grp EXCEPT !.active_processes = @ - 1]
    /\ UNCHANGED << exit_status, killed, suspended, activity >>
    /\ EnvFrame

\* ------------------------------------------------------- the message channel
InLoop == pc \in {"get_report", "final_check", "assemble", "check", "drain"}

\* A holder of the Sender sends the script's next message; the Receiver is
\* alive until the program or the monitor owning it is dropped.
Send ==
    /\ sent < Len(script)
    /\ pc \notin {"new_failed", "dropped"}
    /\ queue' = Append(queue, script[sent + 1])
    /\ sent' = sent + 1
    /\ hist' = [hist EXCEPT
          !.sentRunning =
              @ \/ (script[sent + 1] = "Terminate" /\ InLoop /\ RootRunning),
          !.termSentAt =
              IF @ = 0 /\ script[sent + 1] = "Terminate" /\ InLoop
              THEN Len(hist.backlog) + sent + 1 ELSE @]
    /\ UNCHANGED << cfgVars, pc, monVars, local, drained, envVars, now, result >>

Next ==
    \/ New
    \/ GetReport
    \/ FinalCheck
    \/ Assemble
    \/ LoopCheck
    \/ HandleMessage
    \/ Sleep
    \/ Drop
    \/ Alloc
    \/ Write
    \/ Burn
    \/ Fork
    \/ Connect
    \/ Disconnect
    \/ RootExit
    \/ ChildExit
    \/ Send

Spec == Init /\ [][Next]_vars

\* ------------------------------------------- the monitor waiting for children
\* Runs in which no call fails, of programs that fork, are submitted with
\* wait_for_children and a wall-clock limit and send no message, on the
\* platforms that report pid_counters; a descendant exits only when the
\* group is terminated.
WaitingInputs ==
    { Input([DefaultProgram EXCEPT
                 !.info = { "Fork" },
                 !.resource_limits =
                     Some([DefaultLimits EXCEPT !.wall_clock_time = Some(w)]),
                 !.wait_for_children = TRUE],
            plat, <<>>, <<>>) :
        w \in 0..1, plat \in { p \in Platforms : "pid_counters" \in p.counters } }

WaitingInit ==
    /\ \E i \in WaitingInputs : WorkerInit(i)
    /\ pool = NoPool
    /\ ctx = NoContext("None")
    /\ uc = NoCreate

\* The step ends in no error.
Succeeds == pc' \notin { "new_failed", "failed" }

\* The monitor's thread takes its next step.
MonitorStep ==
    \/ New /\ Succeeds
    \/ GetReport /\ Succeeds
    \/ FinalCheck /\ Succeeds
    \/ Assemble /\ Succeeds
    \/ LoopCheck /\ Succeeds
    \/ Sleep
    \/ Drop

\* A process of a terminated group exits.
KilledExit == killed /\ (RootExit \/ ChildExit)

WaitingNext ==
    \/ MonitorStep
    \/ Fork
    \/ RootExit
    \/ KilledExit

\* The monitor's thread keeps running, and terminated processes exit.
WaitingSpec ==
    /\ WaitingInit
    /\ [][WaitingNext]_vars
    /\ WF_vars(MonitorStep)
    /\ WF_vars(KilledExit)

\* ------------------------------------------- the monitor and its channel
\* Runs in which no call fails, of programs submitted with and without
\* wait_for_children and a wall-clock limit, whose channel is empty, holds
\* more messages than one drain takes, or receives messages while the
\* monitor runs; the processes exit or not as they please.
LiveChannels ==
    { << <<>>, <<>> >>,
      << Repeat("Suspend", MaxDrain + FloodExtra), <<>> >>,
      << <<"StopTimeAccounting">>, <<"Suspend", "Resume">> >>,
      << <<>>, <<"Terminate">> >> }

LiveInputs ==
    { Input([DefaultProgram EXCEPT !.info = { "Fork" },
                                   !.resource_limits = l,
                                   !.wait_for_children = w],
            FullPlatform, c[1], c[2]) :
        l \in { None, Some([DefaultLimits EXCEPT !.wall_clock_time = Some(1)]) },
        w \in BOOLEAN, c \in LiveChannels }

LiveInit ==
    /\ \E i \in LiveInputs : WorkerInit(i)
    /\ pool = NoPool
    /\ ctx = NoContext("None")
    /\ uc = NoCreate

\* The monitor's thread takes its next step, the drain included.
LiveMonitorStep == MonitorStep \/ (HandleMessage /\ Succeeds)

LiveNext ==
    \/ LiveMonitorStep
    \/ Fork
    \/ RootExit
    \/ ChildExit
    \/ Send

\* The monitor's thread keeps running; nothing is assumed of the processes
\* and of the senders.
LiveSpec == LiveInit /\ [][LiveNext]_vars /\ WF_vars(LiveMonitorStep)

\* ================================================================ the Spawner
\* Spawner::spawn starts one worker thread per program and Spawner::wait
\* joins them.  Here every worker is followed only as far as the Spawner and
\* the holders of its senders can tell: whether it built its monitor, the
\* messages it takes from its channel tick by tick, how it ends.

\* Programs submitted to one Spawner.
MaxPrograms == 2

ProgramNames == { <<"a", "b", "c", "d">>[k] : k \in 1..MaxPrograms }

\* SpawnedProgram::new: msg_channel = channel(), a sender and a receiver of
\* one new channel, named here after the program.
NewChannel(name) == << name, name >>

\* The submissions: one to MaxPrograms programs, in an order that is not
\* the order of their names.
PoolPrograms ==
    { [ i \in 1..n |-> <<"a", "b", "c", "d">>[n + 1 - i] ] : n \in 1..MaxPrograms }

\* Runner { sender: prog.msg_channel.0.clone(), handle: thread::spawn(..) }:
\* the i-th runner holds the i-th program's sender and the handle of the
\* thread started for the i-th program.
SpawnRunners_Reversed(progs) ==
    [ i \in 1..Len(progs) |->
        [ sender |-> NewChannel(progs[i])[1], handle |-> Len(progs) + 1 - i ] ]
SpawnRunners(progs) ==
    [ i \in 1..Len(progs) |->
        [ sender |-> NewChannel(progs[i])[1], handle |-> i ] ]

\* The thread started for program name: its closure owns the program, and
\* with it the receiver (let msg_receiver = program.msg_channel.1).
NewThread(name) ==
    [ program |-> name, receiver |-> NewChannel(name)[2], at |-> "new",
      outcome |-> <<>>, built |-> FALSE, survivors |-> FALSE,
      terminated |-> FALSE, rank |-> 0, drained |-> 0, handled |-> <<>> ]

\* JoinHandle::join returns once the thread has finished.
Joinable_AtOnce(thread) == TRUE
Joinable(thread) == thread.at = "ended"

\* join().unwrap_or(Err(Error::from("Runner thread panicked")))
JoinResult_Propagates(outcome) == outcome
JoinResult(outcome) ==
    IF Len(outcome) > 0 /\ outcome[1] = "Panic"
    THEN << "Err", "Runner thread panicked" >> ELSE outcome

\* A sender reaches the channel it was cloned from.
ChannelOf_First(sender) == "a"
ChannelOf(sender) == sender

\* What the holders of the i-th runner's sender send: on the first runner a
\* burst of as many messages as one drain takes and then FloodExtra single
\* messages, on the others FloodExtra single messages.
Burst(i, n) == IF i = 1 /\ n = 0 THEN MaxDrain ELSE 1
SendCap(i) == IF i = 1 THEN MaxDrain + FloodExtra ELSE FloodExtra

\* A thread that has left the loop takes no message any more: what is and
\* what was in its channel is no longer followed.
Forget(p, h) ==
    [p EXCEPT
        !.threads[h].drained = 0,
        !.threads[h].handled = <<>>,
        !.chan[p.threads[h].receiver] = <<>>,
        !.sends = [ i \in DOMAIN p.sends |->
                      IF ChannelOf(p.runners[i].sender) = p.threads[h].receiver
                      THEN 0 ELSE p.sends[i] ]]

PoolInit ==
    /\ WorkerInit(Input(DefaultProgram, FullPlatform, <<>>, <<>>))
    /\ \E progs \in PoolPrograms : pool = [NoPool EXCEPT !.programs = progs]
    /\ ctx = NoContext("None")
    /\ uc = NoCreate

PoolFrame == UNCHANGED << workerVars, ctx, uc >>

PoolSpawned == pool.runners # <<>>

Handles == DOMAIN pool.threads

\* The threads that have ended so far.
Ended == { h \in Handles : pool.threads[h].at = "ended" }

\* Spawner::spawn(programs)
SpawnAll ==
    /\ ~PoolSpawned
    /\ pool' = [pool EXCEPT
          !.runners = SpawnRunners(pool.programs),
          !.threads = [ h \in 1..Len(pool.programs) |-> NewThread(pool.programs[h]) ],
          !.chan = [ name \in Range(pool.programs) |-> <<>> ],
          !.sends = [ i \in 1..Len(pool.programs) |-> 0 ]]
    /\ PoolFrame

\* ProcessMonitor::new(prog) in thread h: Ok(monitor), or Err with the
\* program, and the receiver in it, dropped.
WorkerNew(h) ==
    /\ pool.threads[h].at = "new"
    /\ \/ pool' = [pool EXCEPT !.threads[h].at = "loop",
                               !.threads[h].built = TRUE]
       \/ pool' = [Forget(pool, h) EXCEPT
             !.threads[h].at = "ended",
             !.threads[h].rank = Cardinality(Ended),
             !.threads[h].outcome = << "Err", pool.threads[h].program >>]
    /\ PoolFrame

\* One iteration of handle_messages' loop in thread h.
WorkerHandle(h) ==
    LET t == pool.threads[h]
        q == pool.chan[t.receiver]
    IN /\ t.at = "loop"
       /\ TakesNext(t.drained, q)
       /\ pool' = [pool EXCEPT
             !.threads[h].drained = @ + 1,
             !.threads[h].handled = Append(@, Head(q)),
             !.chan[t.receiver] = Tail(q)]
       /\ PoolFrame

\* handle_messages returns in thread h; the next tick drains again.
WorkerSleep(h) ==
    LET t == pool.threads[h]
    IN /\ t.at = "loop"
       /\ t.drained > 0
       /\ ~TakesNext(t.drained, pool.chan[t.receiver])
       /\ pool' = [pool EXCEPT !.threads[h].drained = 0]
       /\ PoolFrame

\* start_monitoring returns Ok(report) or Err in thread h, with or without
\* processes of the group still alive.
WorkerReturn(h) ==
    /\ pool.threads[h].at = "loop"
    /\ \E kind \in { "Ok", "Err" }, alive \in BOOLEAN :
          pool' = [Forget(pool, h) EXCEPT
             !.threads[h].at = "returning",
             !.threads[h].survivors = alive,
             !.threads[h].outcome = << kind, pool.threads[h].program >>]
    /\ PoolFrame

\* Thread h panics: before its monitor exists, or in the loop, where the
\* unwinding drops the monitor.
WorkerPanic(h) ==
    LET t == pool.threads[h]
    IN /\ t.at \in { "new", "loop" }
       /\ pool' = [Forget(pool, h) EXCEPT
             !.threads[h].at = IF t.built THEN "returning" ELSE "ended",
             !.threads[h].rank = IF t.built THEN 0 ELSE Cardinality(Ended),
             !.threads[h].survivors = t.built,
             !.threads[h].outcome = << "Panic", t.program >>]
       /\ PoolFrame

\* impl Drop for ProcessMonitor in thread h, then the thread ends.
WorkerDrop(h) ==
    /\ pool.threads[h].at = "returning"
    /\ pool' = [pool EXCEPT !.threads[h].at = "ended",
                            !.threads[h].rank = Cardinality(Ended),
                            !.threads[h].terminated = TRUE]
    /\ PoolFrame

\* runners()[i].sender().send(msg), once or in a burst, while the Spawner
\* is held and the thread owning the receiver has yet to leave its loop; a
\* message is the pair of the runner it was sent through and its serial
\* number.
RunnerSend(i) ==
    LET c == ChannelOf(pool.runners[i].sender)
        n == pool.sends[i]
    IN /\ ~pool.waiting
       /\ n < SendCap(i)
       /\ \E h \in Handles :
             pool.threads[h].receiver = c /\ pool.threads[h].at \in { "new", "loop" }
       /\ pool' = [pool EXCEPT
             !.sends[i] = n + Burst(i, n),
             !.chan[c] = @ \o [ k \in 1..Burst(i, n) |-> << i, n + k >> ]]
       /\ PoolFrame

\* Spawner::wait(self) begins.
Wait ==
    /\ PoolSpawned
    /\ ~pool.waiting
    /\ pool' = [pool EXCEPT !.waiting = TRUE]
    /\ PoolFrame

\* wait's map closure for the next runner: runner.handle.join().unwrap_or(..)
Join ==
    /\ pool.waiting
    /\ Len(pool.results) < Len(pool.runners)
    /\ LET thread == pool.threads[pool.runners[Len(pool.results) + 1].handle]
       IN /\ Joinable(thread)
          /\ pool' = [pool EXCEPT !.results = Append(@, JoinResult(thread.outcome))]
    /\ PoolFrame

PoolNext ==
    \/ SpawnAll
    \/ \E h \in Handles : WorkerNew(h)
    \/ \E h \in Handles : WorkerHandle(h)
    \/ \E h \in Handles : WorkerSleep(h)
    \/ \E h \in Handles : WorkerReturn(h)
    \/ \E h \in Handles : WorkerPanic(h)
    \/ \E h \in Handles : WorkerDrop(h)
    \/ \E i \in DOMAIN pool.runners : RunnerSend(i)
    \/ Wait
    \/ Join

PoolSpec == PoolInit /\ [][PoolNext]_vars

\* ================================================ UserContext (Windows)
\* A thread that enters a UserContext for an Option<User>, runs some steps
\* under it and leaves the scope: by returning, by an error propagated with
\* `?`, or by a panic that unwinds.  Leaving the scope drops the context.
\* How many contexts the thread enters, one after the other.
MaxEnters == 3
\* How many steps it runs under one context before leaving.
MaxHolderSteps == 2

Users == { "None", "user" }

ExitPaths == { "return", "error", "panic" }

\* enter: if let Some(u) = user { cvt(ImpersonateLoggedOnUser(u.token.0))?; }
Impersonates(user) == user # "None"

\* drop: if self.0.is_some() { RevertToSelf(); }
RevertsOnDrop_Always(user) == TRUE
RevertsOnDrop(user) == user # "None"

ContextInit ==
    /\ WorkerInit(Input(DefaultProgram, FullPlatform, <<>>, <<>>))
    /\ pool = NoPool
    /\ \E user \in Users : ctx = NoContext(user)
    /\ uc = NoCreate

ContextFrame == UNCHANGED << workerVars, pool, uc >>

\* UserContext::enter(user): Ok(Self(user)) after a successful
\* ImpersonateLoggedOnUser or without any call when user is None; Err, and no
\* context, when ImpersonateLoggedOnUser fails.
UserContextEnter ==
    /\ ctx.at = "enter"
    /\ ctx.entered < MaxEnters
    /\ IF Impersonates(ctx.user)
       THEN \/ ctx' = [ctx EXCEPT
                         !.calls = Append(@, "ImpersonateLoggedOnUser"),
                         !.impersonating = TRUE,
                         !.context = "Some",
                         !.at = "held",
                         !.entered = @ + 1,
                         !.steps = 0]
            \/ ctx' = [ctx EXCEPT
                         !.calls = Append(@, "ImpersonateLoggedOnUser: error"),
                         !.entered = @ + 1]
       ELSE ctx' = [ctx EXCEPT !.context = "None", !.at = "held",
                               !.entered = @ + 1, !.steps = 0]
    /\ ContextFrame

\* The code holding the context goes on.
HolderStep ==
    /\ ctx.at = "held"
    /\ ctx.steps < MaxHolderSteps
    /\ ctx' = [ctx EXCEPT !.steps = @ + 1]
    /\ ContextFrame

\* The code holding the context leaves its scope and the context is
\* dropped: RevertToSelf is called, its result ignored, if the context holds
\* a user.
DropUserContext ==
    /\ ctx.at = "held"
    /\ \E path \in ExitPaths, reverted \in BOOLEAN :
          ctx' = IF RevertsOnDrop(ctx.user)
                 THEN [ctx EXCEPT
                          !.calls = Append(@, "RevertToSelf"),
                          !.impersonating = @ /\ ~reverted,
                          !.context = "none",
                          !.at = "enter",
                          !.left = path]
                 ELSE [ctx EXCEPT !.context = "none", !.at = "enter",
                                  !.left = path]
    /\ ContextFrame

ContextNext ==
    \/ UserContextEnter
    \/ HolderStep
    \/ DropUserContext

ContextSpec == ContextInit /\ [][ContextNext]_vars

\* ================================================= User::create (Windows)
\* How many times User::create is called, one call after the other.
MaxCreates == 3

\* The calls User::create makes, in their order; each but CreateDesktopW is
\* wrapped in cvt(..)? and returns the error at once.
CreateSteps_ChecksDesktopFirst ==
    << "LogonUserW", "CreateWindowStationW", "GetProcessWindowStation",
       "SetProcessWindowStation(new)", "CreateDesktopW", "cvt(desktop)",
       "SetProcessWindowStation(old)", "GetUserObjectInformationW",
       "from_utf16" >>
CreateSteps ==
    << "LogonUserW", "CreateWindowStationW", "GetProcessWindowStation",
       "SetProcessWindowStation(new)", "CreateDesktopW",
       "SetProcessWindowStation(old)", "cvt(desktop)",
       "GetUserObjectInformationW", "from_utf16" >>

CreateFrame == UNCHANGED << workerVars, pool, ctx >>

\* User::create is called: the process window station is what the calls
\* before left.
UserCreate ==
    /\ uc.k = 0 \/ uc.result # <<>>
    /\ uc.calls < MaxCreates
    /\ uc' = [NoCreate EXCEPT !.k = 1, !.calls = uc.calls + 1,
                              !.station = uc.station, !.before = uc.station]
    /\ CreateFrame

\* `?` on a failed call: create returns the error.
CreateFails(step) == [uc EXCEPT !.log = Append(@, step), !.result = <<"Err", step>>]

\* The call succeeded: create goes on, or returns Ok(Self) after its last
\* step.
CreateGoesOn(u, step) ==
    [u EXCEPT !.log = Append(@, step),
              !.k = @ + 1,
              !.result = IF uc.k = Len(CreateSteps) THEN <<"Ok">> ELSE @]

\* The next call of User::create.  SetProcessWindowStation changes the
\* process window station when it succeeds; CreateDesktopW returns a handle
\* or null and is examined by cvt(desktop) only.
UserCreateStep ==
    /\ uc.k \in DOMAIN CreateSteps
    /\ uc.result = <<>>
    /\ LET step == CreateSteps[uc.k]
       IN CASE step = "CreateWindowStationW" ->
                 \/ uc' = CreateGoesOn([uc EXCEPT !.new_winsta = uc.calls], step)
                 \/ uc' = CreateFails(step)
            [] step = "GetProcessWindowStation" ->
                 \/ uc' = CreateGoesOn([uc EXCEPT !.old_winsta = uc.station], step)
                 \/ uc' = CreateFails(step)
            [] step = "SetProcessWindowStation(new)" ->
                 \/ uc' = CreateGoesOn([uc EXCEPT !.station = uc.new_winsta,
                                                  !.switched = @ \cup {"new"}], step)
                 \/ uc' = CreateFails(step)
            [] step = "CreateDesktopW" ->
                 \E d \in { "null", "desktop" } :
                    uc' = CreateGoesOn([uc EXCEPT !.desktop = d], step)
            [] step = "SetProcessWindowStation(old)" ->
                 \/ uc' = CreateGoesOn([uc EXCEPT !.station = uc.old_winsta,
                                                  !.switched = @ \cup {"old"}], step)
                 \/ uc' = CreateFails(step)
            [] step = "cvt(desktop)" ->
                 IF uc.desktop = "desktop"
                 THEN uc' = CreateGoesOn(uc, step)
                 ELSE uc' = CreateFails(step)
            [] OTHER ->
                 \/ uc' = CreateGoesOn(uc, step)
                 \/ uc' = CreateFails(step)
    /\ CreateFrame

CreateInit ==
    /\ WorkerInit(Input(DefaultProgram, FullPlatform, <<>>, <<>>))
    /\ pool = NoPool
    /\ ctx = NoContext("None")
    /\ uc = NoCreate

CreateNext ==
    \/ UserCreate
    \/ UserCreateStep

CreateSpec == CreateInit /\ [][CreateNext]_vars

\* =============================================================== properties
HasReport == Len(result) = 2
TheReport == result[2]

\* The limits the monitor was built with.
Limits == UnwrapOrDefault(program.resource_limits)

IsMessage(e) == e \in RunnerMessage

\* The messages handled in the current tick, in order.
TickMessages == SelectSeq(hist.tickLog, IsMessage)

\* C1 (as claimed): once term_reason has been set, no later check result and
\* no later Terminate message replaces it, and the Report carries the first
\* reason recorded.
C1_FirstReasonWins ==
    /\ hist.first_reason # "None" => term_reason = hist.first_reason
    /\ HasReport => TheReport.termination_reason = hist.first_reason

\* C2 (as claimed): a Report whose termination_reason is None carries
\* counters that satisfy every limit that is set.
C2_NoneMeansWithinLimits ==
    (HasReport /\ TheReport.termination_reason = "None") =>
        LET r == TheReport
            pids == r.pid_counters
        IN /\ ~Gt(r.memory, Limits.max_memory_usage)
           /\ ~Gt(r.io, Limits.total_bytes_written)
           /\ ~Gt(r.timers, Limits.total_user_time)
           /\ IsSome(pids) =>
                /\ ~Gt(Some(Unwrap(pids).total_processes),
                       Limits.total_processes_created)
                /\ ~Gt(Some(Unwrap(pids).active_processes),
                       Limits.active_processes)
           /\ ~Gt(r.network, Limits.active_network_connections)

\* The place of an event in a tick.
Stage(e) ==
    CASE e = "get_report" -> 1
      [] e \in {"check", "final_check"} -> 2
      [] e = "breach" -> 3
      [] e = "terminate" -> 4
      [] IsMessage(e) -> 5
      [] e = "sleep" -> 6

\* C3: every tick runs report check, limit check (with terminate right after
\* a breach), message drain, sleep, in this order; no message comes between
\* a breach and its terminate; while the root runs the tick never takes the
\* report path and never reaches the drain or the sleep without the check.
C3_TickOrder ==
    LET log == hist.tickLog
        n == Len(log)
    IN /\ n > 0 => log[1] = "get_report"
       /\ \A i \in 1..(n - 1) :
             /\ Stage(log[i]) <= Stage(log[i + 1])
             /\ Stage(log[i]) = Stage(log[i + 1]) => IsMessage(log[i])
       /\ \A i \in 1..n :
             /\ log[i] = "breach" => (i < n /\ log[i + 1] = "terminate")
             /\ log[i] = "terminate" => (i > 1 /\ log[i - 1] = "breach")
             /\ (IsMessage(log[i]) \/ log[i] = "sleep") => log[2] = "check"
       /\ pc = "check" => log = <<"get_report">>
       /\ pc = "drain" => (n >= 2 /\ log[2] = "check" /\ log[n] # "sleep")
       /\ pc \in {"final_check", "assemble"} =>
             (exit_status # "None" /\ "check" \notin Range(log))

C3_Witness ==
    hist.tickLog = <<"get_report", "check", "breach", "terminate", "Terminate", "sleep">>

\* C4: one handle_messages call takes at most MaxDrain messages, in the
\* order they were sent, and what it does not take stays queued: the
\* messages received so far followed by the queue are exactly the messages
\* sent, and the channel shrinks by no more than MaxDrain per tick.
C4_DrainCap ==
    /\ drained <= MaxDrain
    /\ Len(TickMessages) <= MaxDrain
    /\ hist.received \o queue = hist.backlog \o SubSeq(script, 1, sent)
    /\ pc = "drain" =>
          /\ Len(hist.received) = hist.drainBase + drained
          /\ TickMessages = SubSeq(hist.received, hist.drainBase + 1,
                                   Len(hist.received))
          /\ Len(queue) >= Len(hist.drainStart) - drained

\* A second drain has taken what a full first drain left in the channel.
C4_Witness ==
    /\ hist.drainBase = MaxDrain
    /\ Len(hist.received) > MaxDrain
    /\ queue # <<>>

\* A drain has ended (handle_messages returns Ok).
DrainDone == pc = "drain" /\ ~TakesNext(drained, queue)

\* The Terminate sent during the loop was in the channel when the current
\* drain began, at position TermPos.
TermPos == hist.termSentAt - hist.drainBase
TermQueuedAtDrainStart ==
    /\ hist.termSentAt # 0
    /\ TermPos >= 1
    /\ TermPos <= Len(hist.drainStart)

TerminateHonoured ==
    /\ term_reason = "TerminatedByRunner"
    /\ killed
    /\ "message" \in hist.terminates

LimitOf(reason) ==
    CASE reason = "WallClockTimeLimitExceeded" -> Limits.wall_clock_time
      [] reason = "IdleTimeLimitExceeded" -> Limits.idle_time
      [] reason = "UserTimeLimitExceeded" -> Limits.total_user_time
      [] reason = "WriteLimitExceeded" -> Limits.total_bytes_written
      [] reason = "MemoryLimitExceeded" -> Limits.max_memory_usage
      [] reason = "ProcessLimitExceeded" -> Limits.total_processes_created
      [] reason = "ActiveProcessLimitExceeded" -> Limits.active_processes
      [] reason = "ActiveNetworkConnectionLimitExceeded" ->
             Limits.active_network_connections

LimitReasons == TerminationReason \ {"TerminatedByRunner"}

\* C7: a limit that is None is never enforced: set_os_limit is not called
\* for it, no check returns its reason and term_reason never holds it; with
\* every limit None the monitor never terminates the group for a limit, and
\* without a handled Terminate its Report has no termination reason.
C7_NoneNeverEnforced ==
    /\ Limits.max_memory_usage = None =>
          "set_os_limit(Memory)" \notin Range(hist.newLog)
    /\ Limits.active_processes = None =>
          "set_os_limit(ActiveProcess)" \notin Range(hist.newLog)
    /\ Limits.max_memory_usage = None => ~limit_checker.enabled.memory
    /\ Limits.active_processes = None => ~limit_checker.enabled.active_process
    /\ LET checked == LcCheck(limit_checker, grp, platform, now).reason
       IN \A reason \in LimitReasons :
             LimitOf(reason) = None =>
                /\ checked # reason
                /\ term_reason # reason
                /\ HasReport => TheReport.termination_reason # reason
    /\ Limits = DefaultLimits =>
          /\ "limit" \notin hist.terminates
          /\ (HasReport /\ "Terminate" \notin Range(hist.received)) =>
                TheReport.termination_reason = "None"

\* A program without limits has used every resource and returned a Report
\* without a reason.
C7_Witness ==
    /\ Limits = DefaultLimits
    /\ HasReport
    /\ TheReport.termination_reason = "None"
    /\ Gt(TheReport.io, Some(0))
    /\ Gt(TheReport.memory, Some(0))

\* C8: with wait_for_children set, get_report goes on to assemble a Report
\* only with pid_counters absent or active_processes = 0, and the Report
\* carries these pid_counters.
C8_WaitsForChildren ==
    program.wait_for_children =>
        /\ pc \in {"final_check", "assemble"} =>
              (IsSome(local.pid_counters) =>
                  Unwrap(local.pid_counters).active_processes = 0)
        /\ HasReport =>
              (IsSome(TheReport.pid_counters) =>
                  Unwrap(TheReport.pid_counters).active_processes = 0)

\* A Report was returned for a group in which a descendant had been created.
C8_Witness ==
    /\ program.wait_for_children
    /\ HasReport
    /\ IsSome(TheReport.pid_counters)
    /\ Unwrap(TheReport.pid_counters).total_processes > 1
    /\ TheReport.wall_clock_time > 0

\* C9: a Report is returned at most once, only after exit_status() gave
\* Some, with that status; the loop makes no step once it is returned.
C9_ReportOnce ==
    /\ hist.reports <= 1
    /\ HasReport <=> hist.reports = 1
    /\ HasReport =>
          /\ exit_status # "None"
          /\ TheReport.exit_status = exit_status
          /\ pc \in {"done", "dropped"}

C9_Witness ==
    /\ HasReport
    /\ TheReport.exit_status = "Crashed"
    /\ pc = "dropped"
    /\ now > 0

\* C10: once the monitor is dropped, its Drop has called group.terminate()
\* and the installed callback has run exactly once (never, if none was
\* installed), whether start_monitoring returned a Report or an error; the
\* callback runs nowhere else.
C10_DropTerminatesAndCalls ==
    /\ pc = "dropped" =>
          /\ "drop" \in hist.terminates
          /\ hist.callbacks = (IF program.on_terminate # "None" THEN 1 ELSE 0)
          /\ on_terminate = "None"
    /\ pc # "dropped" => (hist.callbacks = 0 /\ "drop" \notin hist.terminates)
    /\ pc \in {"done", "failed"} => on_terminate = program.on_terminate

C10_Witness ==
    /\ pc = "dropped"
    /\ result = <<"Err">>
    /\ hist.callbacks = 1

\* C11: a call that fails inside the loop ends start_monitoring there: the
\* worker's result is the error and never a Report, no tick event, message
\* receipt or Report follows the failure, the only step the monitor still
\* makes is its drop, and the drop has called group.terminate().
C11_LoopErrorStops ==
    /\ [](/\ pc = "failed" => (result = <<"Err">> /\ hist.reports = 0)
          /\ (pc = "dropped" /\ ~HasReport) =>
                /\ result = <<"Err">>
                /\ hist.reports = 0
                /\ "drop" \in hist.terminates)
    /\ [][pc = "failed" =>
             /\ pc' \in {"failed", "dropped"}
             /\ result' = result
             /\ hist'.tickLog = hist.tickLog
             /\ hist'.received = hist.received
             /\ queue' = queue \/ Len(queue') = Len(queue) + 1
             /\ term_reason' = term_reason]_vars

\* The last getter of a Report that had passed its final check failed, and
\* the monitor was dropped with the error as its result.
C11_Witness ==
    /\ pc = "dropped"
    /\ result = <<"Err">>
    /\ "final_check" \in Range(hist.tickLog)
    /\ "drop" \in hist.terminates

\* C12: when a step of ProcessMonitor::new fails the worker's result is the
\* error, the calls made are exactly the steps up to the failing one (so
\* spawn_in_group is not called after another step failed and no process
\* exists), no tick ever runs, the worker makes no further step, and the
\* Group that existed is dropped.
C12_NewFailureStops ==
    /\ [](pc = "new_failed" =>
             LET steps == NewSteps(program)
                 k == hist.newFailed
             IN /\ result = <<"Err">>
                /\ k \in 1..Len(steps)
                /\ Fallible(steps[k])
                /\ hist.newLog = SubSeq(steps, 1, k)
                /\ "spawn_in_group" \in Range(hist.newLog) => k = Len(steps)
                /\ grp = EmptyGroup
                /\ exit_status = "None"
                /\ hist.tickLog = <<>>
                /\ hist.reports = 0
                /\ hist.terminates = {}
                /\ hist.group # "live"
                /\ (program.group # "None" \/ k > 1) => hist.group = "dropped")
    /\ [][pc = "new_failed" => UNCHANGED << pc, result, monVars, envVars, hist >>]_vars

\* set_os_limit(ActiveProcess) failed on a Group the caller supplied, after
\* set_os_limit(Memory) succeeded.
C12_Witness ==
    /\ pc = "new_failed"
    /\ program.group # "None"
    /\ hist.newLog = <<"set_os_limit(Memory)", "set_os_limit(ActiveProcess)">>
    /\ hist.group = "dropped"

\* ------------------------------------------------- properties of the Spawner
WaitReturned ==
    PoolSpawned /\ pool.waiting /\ Len(pool.results) = Len(pool.runners)

\* The thread running the program called name, and the runner holding the
\* handle h.
ThreadOf(name) == CHOOSE h \in Handles : pool.threads[h].program = name
RunnerOf(h) == CHOOSE i \in DOMAIN pool.runners : pool.runners[i].handle = h

\* C13: wait yields one result per program, the i-th being the outcome of
\* the thread that ran the i-th program whatever the order the threads ended
\* in, and the i-th runner holds the sender of the i-th program's channel.
C13_ResultsInOrder ==
    /\ Len(pool.results) <= Len(pool.programs)
    /\ WaitReturned => Len(pool.results) = Len(pool.programs)
    /\ PoolSpawned =>
          \A i \in DOMAIN pool.runners :
             pool.runners[i].sender = NewChannel(pool.programs[i])[1]
    /\ \A i \in DOMAIN pool.results :
          LET t == pool.threads[ThreadOf(pool.programs[i])]
          IN /\ t.at = "ended"
             /\ IF t.outcome[1] = "Panic"
                THEN pool.results[i][1] = "Err"
                ELSE pool.results[i] = t.outcome

\* Both results are in place although the second program's thread ended
\* first.
C13_Witness ==
    /\ WaitReturned
    /\ Len(pool.results) = 2
    /\ pool.threads[ThreadOf(pool.programs[1])].rank = 1
    /\ pool.results[1] = << "Ok", pool.programs[1] >>
    /\ pool.results[2] = << "Err", pool.programs[2] >>

\* C14: the result wait yields for a thread that panicked is
\* Err("Runner thread panicked"), in that thread's position; wait goes on to
\* the next runner, and the result of a thread that did not panic is its
\* own outcome.
C14_PanicBecomesErr ==
    \A i \in DOMAIN pool.results :
       LET outcome == pool.threads[pool.runners[i].handle].outcome
       IN /\ pool.results[i][1] \in { "Ok", "Err" }
          /\ outcome[1] = "Panic" =>
                pool.results[i] = << "Err", "Runner thread panicked" >>
          /\ outcome[1] # "Panic" => pool.results[i] = outcome

\* The first thread panicked and the second returned a Report.
C14_Witness ==
    /\ WaitReturned
    /\ Len(pool.results) = 2
    /\ pool.threads[pool.runners[1].handle].outcome[1] = "Panic"
    /\ pool.results[1] = << "Err", "Runner thread panicked" >>
    /\ pool.results[2] = << "Ok", pool.programs[2] >>

C17_TerminatedBeforeWaitReturns ==
    /\ \A i \in DOMAIN pool.results :
          LET t == pool.threads[pool.runners[i].handle]
          IN t.at = "ended" /\ (t.built => t.terminated)
    /\ WaitReturned =>
          \A h \in Handles :
             pool.threads[h].at = "ended"
             /\ (pool.threads[h].built => pool.threads[h].terminated)
             /\ (pool.threads[h].terminated => pool.threads[h].built)

\* A Report was returned with processes of the group alive, another monitor
\* was dropped by a panic, and wait has returned.
C17_Witness ==
    /\ WaitReturned
    /\ \E h \in Handles :
          /\ pool.threads[h].outcome[1] = "Ok"
          /\ pool.threads[h].survivors
          /\ pool.threads[h].terminated
    /\ \E h \in Handles :
          /\ pool.threads[h].outcome[1] = "Panic"
          /\ pool.threads[h].terminated

\* C16: a breach found by the loop's check is followed in the same tick by
\* group.terminate() and the recording of the reason, and the loop goes on to
\* its drain; from then on a reason is recorded, and the Report returned once
\* the root process is seen to have exited is an Ok(Report) carrying a
\* reason.  Only a call that fails (group.terminate() included) gives Err.
C16_BreachIsNormal ==
    /\ hist.breached # "None" =>
          /\ killed
          /\ "limit" \in hist.terminates
          /\ term_reason # "None"
          /\ HasReport => TheReport.termination_reason # "None"
    /\ (result # <<"Err">> /\ "breach" \in Range(hist.tickLog)) =>
          /\ hist.breached # "None"
          /\ pc \in { "drain", "get_report" }
          /\ (pc = "drain" /\ drained = 0) => term_reason = hist.breached

\* The breach was recorded while the root process ran, and ticks later the
\* Report carries it.
C16_Witness ==
    /\ HasReport
    /\ hist.breached = "WriteLimitExceeded"
    /\ TheReport.termination_reason = "WriteLimitExceeded"
    /\ TheReport.wall_clock_time > 1

\* C18: with wait_for_children and a wall-clock limit, once the root process
\* has exited leaving a descendant that does not exit by itself, the loop
\* keeps checking the limit, which fires; the group is terminated, and when
\* no process is active a Report with WallClockTimeLimitExceeded is returned.
C18_WallClockEndsWait ==
    (/\ program.wait_for_children
     /\ IsSome(Limits.wall_clock_time)
     /\ Spawned
     /\ exit_status # "None"
     /\ Descendants > 0
     /\ ~killed)
    ~> (/\ HasReport
        /\ TheReport.termination_reason = "WallClockTimeLimitExceeded"
        /\ Unwrap(TheReport.pid_counters).active_processes = 0
        /\ "limit" \in hist.terminates)

\* The Report of a run whose root process had exited before the limit fired.
C18_Witness ==
    /\ program.wait_for_children
    /\ HasReport
    /\ TheReport.termination_reason = "WallClockTimeLimitExceeded"
    /\ Unwrap(TheReport.pid_counters).total_processes > 1
    /\ Unwrap(TheReport.pid_counters).active_processes = 0
    /\ hist.breached = "WallClockTimeLimitExceeded"
    /\ TheReport.wall_clock_time > 1

\* The position of a call among those ProcessMonitor::new made (0: not made).
CallAt(step) ==
    IF step \in Range(hist.newLog)
    THEN CHOOSE k \in DOMAIN hist.newLog : hist.newLog[k] = step
    ELSE 0

\* C19: set_os_limit is called for each of the two limits that is Some
\* before spawn_in_group is called; once the monitor is built,
\* EnabledOsLimits.memory (active_process) is true exactly when
\* max_memory_usage (active_processes) is Some and set_os_limit answered
\* true; and the check never gives, whatever the group's counter reads, and
\* the monitor never records, the reason of a limit recorded as enforced by
\* the OS.
C19_OsLimitsRecorded ==
    /\ CallAt("spawn_in_group") # 0 =>
          /\ IsSome(Limits.max_memory_usage) <=>
                CallAt("set_os_limit(Memory)") \in 1..(CallAt("spawn_in_group") - 1)
          /\ IsSome(Limits.active_processes) <=>
                CallAt("set_os_limit(ActiveProcess)")
                    \in 1..(CallAt("spawn_in_group") - 1)
    /\ CallAt("set_os_limit(Memory)") # 0 /\ CallAt("set_os_limit(ActiveProcess)") # 0
          => CallAt("set_os_limit(Memory)") < CallAt("set_os_limit(ActiveProcess)")
    /\ Spawned =>
          /\ limit_checker.enabled.memory <=>
                (IsSome(Limits.max_memory_usage) /\ SetOsLimit(platform, "Memory"))
          /\ limit_checker.enabled.active_process <=>
                (IsSome(Limits.active_processes)
                    /\ SetOsLimit(platform, "ActiveProcess"))
          /\ LET Checked(g) == LcCheck(limit_checker, g, platform, now).reason
                 readings == 0..(MaxActivity + 1)
                 recorded == { term_reason, hist.breached }
             IN /\ limit_checker.enabled.memory =>
                      /\ "MemoryLimitExceeded" \notin recorded
                      /\ \A m \in readings :
                            Checked([grp EXCEPT !.memory = m])
                                # "MemoryLimitExceeded"
                /\ limit_checker.enabled.active_process =>
                      /\ "ActiveProcessLimitExceeded" \notin recorded
                      /\ \A n \in readings :
                            Checked([grp EXCEPT !.active_processes = n])
                                # "ActiveProcessLimitExceeded"

\* Both limits are set, the platform took the memory cap and refused the
\* process cap, and the monitor has returned its Report.
C19_Witness ==
    /\ HasReport
    /\ IsSome(Limits.max_memory_usage)
    /\ IsSome(Limits.active_processes)
    /\ limit_checker.enabled.memory
    /\ ~limit_checker.enabled.active_process

\* get_report has passed its two Ok(None) returns and goes on to build the
\* Report.
ReportReady == pc = "final_check" /\ pc' = "assemble"

\* C20: once the Report is ready, one LimitChecker::check runs if and only
\* if term_reason is still unset, and its result is stored in term_reason;
\* with term_reason set no check runs and neither the checker nor the reason
\* changes; the Report that follows carries term_reason as it then stands,
\* and no tick runs the final check twice.
C20_FinalCheckOnlyIfUnset ==
    /\ [][ReportReady =>
            IF term_reason = "None"
            THEN LET r == LcCheck(limit_checker, grp, platform, now)
                 IN /\ term_reason' = r.reason
                    /\ limit_checker' = r.lc
                    /\ hist'.tickLog = Append(hist.tickLog, "final_check")
            ELSE /\ term_reason' = term_reason
                 /\ limit_checker' = limit_checker
                 /\ hist'.tickLog = hist.tickLog]_vars
    /\ [][pc = "assemble" /\ HasReport' =>
            /\ TheReport'.termination_reason = term_reason
            /\ term_reason' = term_reason]_vars
    /\ [](Cardinality({ k \in DOMAIN hist.tickLog :
                          hist.tickLog[k] = "final_check" }) <= 1)
    /\ [](HasReport =>
            /\ TheReport.termination_reason = term_reason
            /\ "final_check" \notin Range(hist.tickLog) => term_reason # "None")

\* A breach that the loop never saw: the Report's reason was found by the
\* final check.
C20_Witness ==
    /\ HasReport
    /\ "final_check" \in Range(hist.tickLog)
    /\ TheReport.termination_reason \notin { "None", "TerminatedByRunner" }

\* C21 (as claimed): with total_processes_created = Some(0) the monitor's
\* first check, in the loop or as the final check, returns
\* ProcessLimitExceeded, and no Report carries the reason None.
C21_ZeroLimitFiresAtOnce ==
    Limits.total_processes_created = Some(0) =>
        /\ hist.firstCheck \in { "unset", "ProcessLimitExceeded" }
        /\ HasReport => TheReport.termination_reason # "None"

\* The rules that come before ProcessLimitExceeded in the check's order.
BeforeProcessRule ==
    { CheckOrder[k] : k \in { j \in DOMAIN CheckOrder :
                                \A i \in 1..j : CheckOrder[i] # "ProcessLimitExceeded" } }

\* C21 (amended): where the group reports pid_counters the monitor's first
\* check returns a reason: ProcessLimitExceeded, or that of a rule earlier
\* in the order whose limit is set as well and breached by the same sample;
\* and no Report carries None.  Where pid_counters is None the rule never
\* fires.
C21_ZeroLimitFiresWhereCounted ==
    Limits.total_processes_created = Some(0) =>
        IF IsSome(GroupPidCounters(grp, platform))
        THEN /\ hist.firstCheck \in
                    { "unset", "ProcessLimitExceeded" } \cup BeforeProcessRule
             /\ (hist.firstCheck \in BeforeProcessRule) =>
                    Limits # [DefaultLimits EXCEPT
                                  !.total_processes_created = Some(0)]
             /\ HasReport => TheReport.termination_reason # "None"
        ELSE "ProcessLimitExceeded" \notin hist.returned

\* The root exited before the first tick: the first check was the final
\* check and the Report carries its reason.
C21_Witness ==
    /\ Limits.total_processes_created = Some(0)
    /\ HasReport
    /\ hist.tickLog = <<"get_report", "final_check">>
    /\ hist.firstCheck = "ProcessLimitExceeded"
    /\ TheReport.termination_reason = "ProcessLimitExceeded"
    /\ TheReport.wall_clock_time = 0

\* handle_messages takes a Suspend or a Resume from the channel.
HandlesControl ==
    /\ pc = "drain"
    /\ queue # <<>>
    /\ Head(queue) \in { "Suspend", "Resume" }
    /\ queue' = Tail(queue)

\* C22: handling a Suspend (Resume) calls process.suspend() (resume()) only
\* if the root's exit_status() is None at that moment, and then the root is
\* suspended (runs again) unless the call fails; once the root has exited
\* the message makes no call and changes nothing; and in no case does it
\* change term_reason, the limit checker or the group.
C22_ControlOnlyWhileRunning ==
    [][HandlesControl =>
          /\ term_reason' = term_reason
          /\ limit_checker' = limit_checker
          /\ killed' = killed
          /\ grp' = grp
          /\ IF exit_status = "None"
             THEN /\ hist'.control \in { "none", ControlCall(Head(queue)) }
                  /\ pc' # "failed" =>
                        /\ hist'.control = ControlCall(Head(queue))
                        /\ suspended' = (Head(queue) = "Suspend")
             ELSE /\ hist'.control = "none"
                  /\ suspended' = suspended]_vars

\* A Suspend handled after the root exited: no call was made.
C22_Witness ==
    /\ pc = "drain"
    /\ exit_status # "None"
    /\ hist.received # <<>>
    /\ hist.received[Len(hist.received)] = "Suspend"
    /\ hist.control = "none"
    /\ ~suspended

\* The first rule of CheckOrder that the sample g breaches for checker lc,
\* "None" when it breaches none.
FirstBreached(lc, g, plat) ==
    LET b == BreachedRules(lc, g, plat)
    IN IF b = {} THEN "None"
       ELSE CheckOrder[CHOOSE k \in b : \A j \in b : k <= j]

\* C23: every check returns the first rule, in the order wall clock, idle,
\* user time, write, memory, processes, active processes, network
\* connections, that its sample breaches: the loop's check records that
\* reason for a breach and leaves term_reason alone without one, and the
\* final check stores it as the Report's reason.
C23_FirstInOrderWins ==
    /\ [](Spawned => 
            LET r == LcCheck(limit_checker, grp, platform, now)
            IN r.reason = FirstBreached(r.lc, grp, platform))
    /\ [][pc = "check" /\ pc' = AfterCheck =>
            LET r == LcCheck(limit_checker, grp, platform, now)
                first == FirstBreached(r.lc, grp, platform)
            IN /\ term_reason' = IF first = "None" THEN term_reason ELSE first
               /\ hist'.breached = IF first = "None" THEN hist.breached ELSE first]_vars
    /\ [][pc = "final_check" /\ pc' = "assemble" /\ term_reason = "None" =>
            LET r == LcCheck(limit_checker, grp, platform, now)
            IN term_reason' = FirstBreached(r.lc, grp, platform)]_vars

\* One sample breaches the write and the memory limit, and the monitor
\* records the write limit.
C23_Witness ==
    /\ Limits.total_bytes_written = Some(0)
    /\ Limits.max_memory_usage = Some(0)
    /\ grp.io > 0
    /\ grp.memory > 0
    /\ hist.returned = { "WriteLimitExceeded" }
    /\ term_reason = "WriteLimitExceeded"

\* A check has sampled the group: the loop's check or the final check ran
\* and returned.
Samples ==
    \/ pc = "check" /\ hist'.tickLog # hist.tickLog
    \/ pc = "final_check" /\ pc' = "assemble" /\ term_reason = "None"

\* The last interval's CPU load, user time over elapsed time, is below the
\* idle limit's threshold.
LoadBelowThreshold ==
    LET idle == Unwrap(Limits.idle_time)
        dt == now - limit_checker.last_now
        du == grp.user - limit_checker.last_user
    IN dt > 0 /\ du * idle.thr_den < idle.thr_num * dt

\* C24: with an idle-time limit and time accounting running, a sample
\* whose last interval had a load below the threshold adds that interval to
\* the idle accumulator and any other sample leaves it as it was; nothing
\* but ResetTime ever lowers it; and a check returns IdleTimeLimitExceeded
\* only with the accumulator above total_idle_time, and always then unless
\* the wall-clock rule comes first.
C24_IdleTimeAccumulates ==
    /\ [][(Samples /\ IsSome(Limits.idle_time) /\ ~limit_checker.paused) =>
            limit_checker'.idle_time =
                IF LoadBelowThreshold
                THEN limit_checker.idle_time + (now - limit_checker.last_now)
                ELSE limit_checker.idle_time]_vars
    /\ [][limit_checker'.idle_time < limit_checker.idle_time =>
            /\ pc = "drain"
            /\ queue # <<>>
            /\ Head(queue) = "ResetTime"]_vars
    /\ [](Spawned /\ IsSome(Limits.idle_time) =>
            LET r == LcCheck(limit_checker, grp, platform, now)
                over == r.lc.idle_time > Unwrap(Limits.idle_time).total_idle_time
            IN /\ r.reason = "IdleTimeLimitExceeded" => over
               /\ (over /\ ~r.lc.paused) =>
                     r.reason \in { "IdleTimeLimitExceeded",
                                    "WallClockTimeLimitExceeded" })

\* Two idle intervals and a busy one: the accumulator holds the two idle
\* intervals and the limit of one interval is breached.
C24_Witness ==
    /\ IsSome(Limits.idle_time)
    /\ Unwrap(Limits.idle_time).total_idle_time = 1
    /\ grp.user > 0
    /\ limit_checker.wall_time = 3
    /\ limit_checker.idle_time = 2
    /\ term_reason = "IdleTimeLimitExceeded"

IsAccounting(m) == m \in { "StopTimeAccounting", "ResumeTimeAccounting" }

\* The last accounting message handled is a StopTimeAccounting.
InPause ==
    LET s == SelectSeq(hist.received, IsAccounting)
    IN s # <<>> /\ s[Len(s)] = "StopTimeAccounting"

\* handle_messages takes message m from the channel.
Dequeues(m) ==
    /\ pc = "drain"
    /\ queue # <<>>
    /\ Head(queue) = m
    /\ queue' = Tail(queue)

TimeReasons ==
    { "WallClockTimeLimitExceeded", "IdleTimeLimitExceeded",
      "UserTimeLimitExceeded" }

\* C25: from a handled StopTimeAccounting to the next handled
\* ResumeTimeAccounting no step but a ResetTime changes wall_time or
\* user_time, however many ticks pass, and no check returns a time-related
\* reason; handling either message leaves the accumulators as they are, so
\* that after the resume they continue from their values at the stop; and
\* the resume re-anchors the checker's clock, so that the next sample adds
\* only the time since the resume.
C25_PauseFreezesTime ==
    /\ [][(InPause /\ InPause' /\ ~Dequeues("ResetTime")) =>
            /\ limit_checker'.wall_time = limit_checker.wall_time
            /\ limit_checker'.user_time = limit_checker.user_time]_vars
    /\ [][(Dequeues("StopTimeAccounting") \/ Dequeues("ResumeTimeAccounting")) =>
            /\ limit_checker'.wall_time = limit_checker.wall_time
            /\ limit_checker'.user_time = limit_checker.user_time
            /\ limit_checker'.idle_time = limit_checker.idle_time]_vars
    /\ [][Dequeues("ResumeTimeAccounting") => limit_checker'.last_now = now]_vars
    /\ [][(Samples /\ ~InPause) =>
            limit_checker'.wall_time =
                limit_checker.wall_time + (now - limit_checker.last_now)]_vars
    /\ [](Spawned /\ InPause =>
            LcCheck(limit_checker, grp, platform, now).reason \notin TimeReasons)
    /\ [][(InPause /\ Samples) =>
            (hist'.returned \ hist.returned) \cap TimeReasons = {}]_vars

\* Time accounting was stopped at the start and resumed two ticks later:
\* the wall-clock limit of one tick is breached four ticks after the start,
\* with two ticks counted.
C25_Witness ==
    /\ Limits.wall_clock_time = Some(1)
    /\ hist.received = << "StopTimeAccounting", "ResumeTimeAccounting" >>
    /\ now - creation_time = 4
    /\ limit_checker.wall_time = 2
    /\ hist.first_reason = "WallClockTimeLimitExceeded"

\* How many times call c was made.
Calls(c) == Cardinality({ k \in DOMAIN ctx.calls : ctx.calls[k] = c })

\* C26: with a user, every successful ImpersonateLoggedOnUser is followed,
\* as the next call and on every way out of the scope, by one RevertToSelf,
\* and RevertToSelf is called at no other time: while a context is held one
\* impersonation is open, otherwise none is; a failed ImpersonateLoggedOnUser
\* creates no context and is followed by no revert; without a user neither
\* function is ever called.
C26_ImpersonationScoped ==
    /\ [](LET log == ctx.calls
              n == Len(log)
          IN /\ ctx.user = "None" => log = <<>>
             /\ Calls("ImpersonateLoggedOnUser") =
                   Calls("RevertToSelf") + (IF ctx.context = "Some" THEN 1 ELSE 0)
             /\ ctx.context = "Some" =>
                   (ctx.user # "None" /\ log[n] = "ImpersonateLoggedOnUser")
             /\ ctx.context = "None" => ctx.user = "None"
             /\ \A k \in 1..n :
                   /\ log[k] = "RevertToSelf" =>
                         (k > 1 /\ log[k - 1] = "ImpersonateLoggedOnUser")
                   /\ (log[k] = "ImpersonateLoggedOnUser" /\ k < n) =>
                         log[k + 1] = "RevertToSelf"
             /\ ctx.impersonating => Calls("ImpersonateLoggedOnUser") > 0)
    /\ [][(ctx.at = "held" /\ ctx'.at # "held") =>
            /\ ctx'.context = "none"
            /\ ctx'.calls = IF ctx.user = "None" THEN ctx.calls
                            ELSE Append(ctx.calls, "RevertToSelf")]_vars
    /\ [][(ctx.at = "enter" /\ ctx'.calls # ctx.calls
              /\ ctx'.calls[Len(ctx'.calls)] = "ImpersonateLoggedOnUser: error") =>
            /\ ctx'.context = "none"
            /\ ctx'.at = "enter"
            /\ ctx'.impersonating = ctx.impersonating]_vars

\* Two contexts were entered and left, the second by a panic, with a failed
\* impersonation between them: two reverts were called.
C26_Witness ==
    /\ ctx.user = "user"
    /\ ctx.calls = << "ImpersonateLoggedOnUser", "RevertToSelf",
                      "ImpersonateLoggedOnUser: error",
                      "ImpersonateLoggedOnUser", "RevertToSelf" >>
    /\ ctx.left = "panic"
    /\ ctx.context = "none"
    /\ ~ctx.impersonating

\* The reason has a cause in what the monitor did so far.
Caused(reason) ==
    CASE reason = "TerminatedByRunner" -> "Terminate" \in Range(hist.received)
      [] reason = "None" ->
            /\ "Terminate" \notin Range(hist.received)
            /\ hist.first_reason = "None"
      [] OTHER -> reason \in hist.returned

\* C27: term_reason, and with it the Report's termination_reason, is
\* TerminatedByRunner only if handle_messages dequeued a Terminate, a limit
\* reason only if a check returned that reason, and None, in a Report, only
\* if no Terminate was handled and no check returned a reason.
C27_ReasonHasCause ==
    /\ Spawned /\ term_reason # "None" => Caused(term_reason)
    /\ HasReport =>
          /\ Caused(TheReport.termination_reason)
          /\ TheReport.termination_reason = "None" => hist.returned = {}

\* A Report with TerminatedByRunner although a check had returned a reason
\* before the Terminate was handled.
C27_Witness ==
    /\ HasReport
    /\ TheReport.termination_reason = "TerminatedByRunner"
    /\ hist.returned # {}
    /\ "Terminate" \in Range(hist.received)

\* C28: when ProcessMonitor::new has failed, the callback the program was
\* submitted with is never run and the monitor's drop never calls
\* group.terminate(): nothing is ever done on behalf of a monitor, whatever
\* happens later; a callback runs only after new succeeded.
C28_NoMonitorNoCallback ==
    /\ [](pc = "new_failed" =>
            /\ hist.callbacks = 0
            /\ hist.terminates = {}
            /\ ~killed
            /\ on_terminate = "None"
            /\ hist.newFailed > 0)
    /\ [](hist.callbacks > 0 =>
            /\ hist.newFailed = 0
            /\ hist.newLog = NewSteps(program)
            /\ program.on_terminate # "None")
    /\ [][pc = "new_failed" => pc' = "new_failed"]_vars

\* The program was submitted with a callback and spawn_in_group, the last
\* step of new, failed.
C28_Witness ==
    /\ pc = "new_failed"
    /\ program.on_terminate = "handler"
    /\ hist.newFailed = Len(NewSteps(program))
    /\ hist.newLog[hist.newFailed] = "spawn_in_group"
    /\ hist.callbacks = 0

\* C29: the monitor is dropped only once start_monitoring has returned its
\* Report or its error, which the drop leaves as it is; the drop calls
\* group.terminate() first and the callback after it; so a callback that has
\* run finds the worker's result decided and the group told to terminate.
C29_CallbackAfterResultAndTerminate ==
    /\ [][(pc # "dropped" /\ pc' = "dropped") =>
            /\ pc \in { "done", "failed" }
            /\ (pc = "done") = HasReport
            /\ (pc = "failed") = (result = <<"Err">>)
            /\ result' = result
            /\ hist'.dropLog[1] = "terminate"
            /\ "drop" \in hist'.terminates]_vars
    /\ [](hist.callbacks > 0 =>
            /\ hist.callbacks = 1
            /\ pc = "dropped"
            /\ result # <<>>
            /\ hist.dropLog = << "terminate", "on_terminate" >>
            /\ "drop" \in hist.terminates)
    /\ [](pc = "dropped" /\ program.on_terminate = "None" =>
            hist.dropLog = << "terminate" >>)

\* The loop ended in an error and the callback ran after the drop's
\* terminate.
C29_Witness ==
    /\ pc = "dropped"
    /\ result = <<"Err">>
    /\ hist.callbacks = 1
    /\ hist.dropLog = << "terminate", "on_terminate" >>

\* start_monitoring has returned Ok(report).
Returned == HasReport /\ pc \in { "done", "dropped" }

\* The root process has exited and, for a monitor that waits for children,
\* no process of the group is active.
ChildGone ==
    /\ exit_status # "None"
    /\ program.wait_for_children => grp.active_processes = 0

\* C30: if from some point on the root has exited and, with
\* wait_for_children, the group has no active process, then start_monitoring
\* returns a Report, whatever the channel holds or receives: the monitor
\* never waits for a message.
C30_ReturnsWhenChildGone == (<>[]ChildGone) => <>Returned

\* A Report returned with messages still in the channel.
C30_Witness ==
    /\ Returned
    /\ queue # <<>>
    /\ hist.received # <<>>
    /\ exit_status # "None"

TimeMessages == { "ResetTime", "StopTimeAccounting", "ResumeTimeAccounting" }

\* C31: creation_time is set when the monitor is built and never changes;
\* handling ResetTime, StopTimeAccounting or ResumeTimeAccounting changes
\* the limit checker and nothing else of the monitor; and the Report's
\* wall_clock_time is the time from creation_time to the moment the Report
\* is built, never less than the checker's wall_time, whatever resets and
\* pauses were handled.
C31_ReportedTimeIgnoresResets ==
    /\ [][Spawned => creation_time' = creation_time]_vars
    /\ [][(\E m \in TimeMessages : Dequeues(m)) =>
            /\ creation_time' = creation_time
            /\ term_reason' = term_reason
            /\ on_terminate' = on_terminate
            /\ UNCHANGED << envVars, pc, result, now >>]_vars
    /\ [][(pc = "assemble" /\ HasReport') =>
            TheReport'.wall_clock_time = now - creation_time]_vars
    /\ [](HasReport =>
            /\ TheReport.wall_clock_time = now - creation_time
            /\ TheReport.wall_clock_time >= limit_checker.wall_time)

\* A Report after a ResetTime: more time is reported than the checker
\* counted.
C31_Witness ==
    /\ HasReport
    /\ "ResetTime" \in Range(hist.received)
    /\ TheReport.wall_clock_time > limit_checker.wall_time
    /\ limit_checker.wall_time > 0

\* User::create has returned.
CreateReturned == uc.result # <<>>

\* C32: the process window station differs from the one before the call
\* only from the successful SetProcessWindowStation(new) to the
\* SetProcessWindowStation(old) that follows CreateDesktopW, which is called
\* before the desktop handle is examined; so a call in which both
\* SetProcessWindowStation calls succeeded returns with the station it
\* found, whether it returns Ok or the error of a failed desktop creation;
\* and a call returns on another station only if switching back failed.
C32_WindowStationRestored ==
    /\ (CreateReturned /\ uc.switched = { "new", "old" }) =>
          uc.station = uc.before
    /\ (CreateReturned /\ uc.result = <<"Ok">>) =>
          (uc.switched = { "new", "old" } /\ uc.desktop = "desktop")
    /\ (CreateReturned /\ uc.result = <<"Err", "cvt(desktop)">>) =>
          (uc.desktop = "null" /\ uc.station = uc.before)
    /\ uc.station # uc.before =>
          /\ uc.station = uc.new_winsta
          /\ "SetProcessWindowStation(new)" \in Range(uc.log)
          /\ "cvt(desktop)" \notin Range(uc.log)
          /\ CreateReturned => uc.result = <<"Err", "SetProcessWindowStation(old)">>

\* The second call found the station of the first, switched away and back,
\* and failed to create its desktop.
C32_Witness ==
    /\ uc.calls = 2
    /\ uc.result = <<"Err", "cvt(desktop)">>
    /\ uc.switched = { "new", "old" }
    /\ uc.before = 1
    /\ uc.station = 1
====
